---- MODULE Spec2Model ----
(***************************************************************************)
(* Model of the concurrency-and-state core of server.mjs: the admission    *)
(* gate (acquireSlot / releaseSlot), the request handlers that use it, and *)
(* the quota ledger (checkAndConsumeQuota over the 'quota:users' blob).    *)
(*                                                                         *)
(* Fourteen specifications share the variables; each holds the variables   *)
(* it does not use at their idle values:                                   *)
(*   Spec           the server: concurrent request handlers, each          *)
(*                  suspended at its await points, over the gate and the   *)
(*                  ledger;                                                *)
(*   SpecGate       the server receiving only POST /api/analyze/image,     *)
(*                  with more requests in progress than in Spec;           *)
(*   SpecGateLive   SpecGate with clients that give up while queued and    *)
(*                  with slot holders that always finish;                  *)
(*   SpecQuota      the ledger called sequentially: every                  *)
(*                  checkAndConsumeQuota runs to completion before the     *)
(*                  next;                                                  *)
(*   SpecOutage     SpecQuota over a store whose writes can fail;          *)
(*   SpecCodes      the code registry called sequentially: generate,       *)
(*                  delete and redeem, each run to completion;             *)
(*   SpecRedeem     redeem and image-base64 requests interleaved at their  *)
(*                  reads and writes of the two persisted blobs;           *)
(*   SpecRedeemOnly the redeem requests of SpecRedeem alone;               *)
(*   SpecJournal    the usage journal, the client cache and the idle       *)
(*                  reclaimer, minute by minute;                           *)
(*   SpecMirror     the journal mirror under concurrent calls: appends     *)
(*                  suspended at their await points, forced reloads, loads *)
(*                  in progress and reclaimer ticks;                       *)
(*   SpecConfig     the updates of the QuotaConfig;                        *)
(*   SpecReadOutage SpecQuota over a store whose reads can fail;           *)
(*   SpecStore      the persistence functions over every state of the      *)
(*                  remote store and of the local files;                   *)
(*   SpecCalendar   getCurrentWeekId called as time passes.                *)
(***************************************************************************)
EXTENDS Integers, Sequences, FiniteSets, TLC

\* ---------------------------------------------------------------- bounds
\* number of requests that can be in progress at once in Spec
NumReqs == 3
\* number of image requests that can be in progress at once in SpecGate
NumCallers == 5
\* largest weekly limit a stored QuotaConfig holds in the model
MaxLimit == 2
\* largest extraQuota / weeklyUsage a ledger row starts with in SpecQuota
MaxExtra == 1
\* number of checkAndConsumeQuota calls by subjects in one week in SpecQuota
MaxCalls == 3
\* number of logUserUsage calls that can be in progress at once in SpecMirror
NumAppends == 2
\* number of loads of the mirror (_doInitUsageLogs calls) in SpecMirror
MaxLoads == 2
\* number of registry operations (generate, redeem, delete) in SpecCodes
MaxOps == 3
\* largest count and largest amount an administrator asks generate for
MaxCount == 2
MaxAmount == 1
\* number of redeem requests and of image-base64 requests in SpecRedeem
NumRedeems == 2
NumLedgerCalls == 1
\* number of journal operations (append, purge, createClient) in SpecJournal
MaxJournalOps == 3
\* minutes of idle time the model counts
MaxIdle == 6
\* number of image requests that can be in progress at once in SpecGateLive
NumLive == 4
\* number of consecutive years the clock of SpecCalendar runs through
NumYears == 28

\* ------------------------------------------------------ program constants
MAX_CONCURRENT_REQUESTS == 2
MAX_USAGE_LOGS == 500
\* IDLE_THRESHOLD_MS and DEEP_CLEAN_THRESHOLD_MS, in minutes
IDLE_THRESHOLD == 2
DEEP_CLEAN_THRESHOLD == 5
UNLIMITED_REMAINING == 9999
ANONYMOUS_REMAINING == 1

Subjects == {"u1", "u2"}
\* nickname argument: "" is the falsy value (no nickname supplied)
Nicknames == {"", "amy"}
\* the subject and nickname the requests of Spec carry
ReqSubjects == {"u1"}
ReqNicknames == {""}
DefaultNickname == "unnamed"

\* --------------------------------------------------------------- calendar
\* Day of the week of 1 January of year y, 0 = Sunday (Date#getDay)
Jan1Day(y) ==
  (1 + 5 * ((y - 1) % 4) + 4 * ((y - 1) % 100) + 6 * ((y - 1) % 400)) % 7

\* number of days of year y (the length of `now - onejan` over a whole year)
DaysIn(y) ==
  IF y % 4 = 0 /\ (y % 100 # 0 \/ y % 400 = 0) THEN 366 ELSE 365

\* An instant is [year, day, half]: `day` the 0-based day of the year, `half`
\* 0 at midnight exactly and 1 later in that day (local time, no change of
\* the zone's offset during the year).  getCurrentWeekId at instant t:
\*   week = ceil(((now - onejan) / 86400000 + onejan.getDay() + 1) / 7)
\* with (now - onejan) / 86400000 = day at midnight and day + f, 0 < f < 1,
\* later in the day; counted in half days the week is
\* ceil((2 * day + half + 2 * getDay + 2) / 14).  The label
\* `${year}-W${week}` is represented by the pair <<year, week>>.
getCurrentWeekId_weekOnly(t) ==
  <<0, (2 * t.day + t.half + 2 * Jan1Day(t.year) + 2 + 13) \div 14>>

getCurrentWeekId(t) ==
  <<t.year, (2 * t.day + t.half + 2 * Jan1Day(t.year) + 2 + 13) \div 14>>

\* the instants the clock of the model visits, in order
Dates == << [year |-> 2025, day |-> 364, half |-> 1],
            [year |-> 2026, day |-> 0, half |-> 1] >>


\* ------------------------------------------------------------ quota ledger
\* A ledger blob ('quota:users') is a function from the subject ids it holds
\* to their rows.  totalUsage 0 also stands for a row without the field: the
\* code only ever reads it as (user.totalUsage || 0).
NoUsers == [x \in {} |-> 0]

Put(users, id, row) ==
  [x \in (DOMAIN users) \cup {id} |-> IF x = id THEN row ELSE users[x]]

\* the row checkAndConsumeQuota creates for an unseen subject
NewUser(thisWeek, nickname) ==
  [ weeklyUsage |-> 0,
    currentWeek |-> thisWeek,
    extraQuota  |-> 0,
    isUnlimited |-> FALSE,
    isPro       |-> FALSE,
    totalUsage  |-> 0,
    nickname    |-> IF nickname # "" THEN nickname ELSE DefaultNickname ]

QuotaResult(allowed, reason, remaining, isUnlimited, isPro) ==
  [ allowed |-> allowed, reason |-> reason, remaining |-> remaining,
    isUnlimited |-> isUnlimited, isPro |-> isPro ]

\* the unlimited branch: totalUsage + 1 and nothing else
ConsumeUnlimited_alsoWeekly(user) ==
  [user EXCEPT !.totalUsage = user.totalUsage + 1,
               !.weeklyUsage = user.weeklyUsage + 1]

ConsumeUnlimited(user) ==
  [user EXCEPT !.totalUsage = user.totalUsage + 1]

\* the lazy weekly reset
RollOver_never(user, thisWeek) == user

RollOver(user, thisWeek) ==
  IF user.currentWeek # thisWeek
  THEN [user EXCEPT !.currentWeek = thisWeek, !.weeklyUsage = 0]
  ELSE user

\* the test that guards the weekly allotment
WeeklyAllows_offByOne(user, weeklyLimit) == user.weeklyUsage <= weeklyLimit

WeeklyAllows(user, weeklyLimit) == user.weeklyUsage < weeklyLimit

ConsumeWeekly_alsoExtra(user) ==
  [user EXCEPT !.weeklyUsage = user.weeklyUsage + 1,
               !.extraQuota  = user.extraQuota - 1,
               !.totalUsage  = user.totalUsage + 1]

ConsumeWeekly(user) ==
  [user EXCEPT !.weeklyUsage = user.weeklyUsage + 1,
               !.totalUsage  = user.totalUsage + 1]

\* the extra-quota branch
ConsumeExtra_noDecrement(user) ==
  [user EXCEPT !.totalUsage = user.totalUsage + 1]

ConsumeExtra(user) ==
  [user EXCEPT !.extraQuota = user.extraQuota - 1,
               !.totalUsage = user.totalUsage + 1]

\* the denial: the function returns without calling saveQuotaUsers
Denied_saving(users, userId, user) ==
  [ users  |-> Put(users, userId, user),
    saved  |-> TRUE,
    result |-> QuotaResult(FALSE, "quota_exceeded", 0, FALSE, user.isPro) ]

Denied(users, userId, user) ==
  [ users  |-> Put(users, userId, user),
    saved  |-> FALSE,
    result |-> QuotaResult(FALSE, "quota_exceeded", 0, FALSE, user.isPro) ]

\* checkAndConsumeQuota from the point where both reads have returned:
\* `users` is the blob getQuotaUsers returned, `quotaConfig` the value of
\* getQuotaConfig, `thisWeek` the value of getCurrentWeekId().  The value is
\*   users  |-> the in-memory blob when the function returns,
\*   saved  |-> whether saveQuotaUsers(users) was called with that blob,
\*   result |-> the decision returned to the caller
\* (an isPro field the code leaves undefined is FALSE here).
checkAndConsumeQuota(users, quotaConfig, thisWeek, userId, nickname) ==
  IF userId = ""
  THEN [ users |-> users, saved |-> FALSE,
         result |-> QuotaResult(TRUE, "anonymous", ANONYMOUS_REMAINING, FALSE, FALSE) ]
  ELSE
    LET created == IF userId \in DOMAIN users
                   THEN users[userId]
                   ELSE NewUser(thisWeek, nickname)
        named   == IF nickname # ""
                   THEN [created EXCEPT !.nickname = nickname]
                   ELSE created
    IN
    IF named.isUnlimited
    THEN [ users  |-> Put(users, userId, ConsumeUnlimited(named)),
           saved  |-> TRUE,
           result |-> QuotaResult(TRUE, "unlimited", UNLIMITED_REMAINING, TRUE, FALSE) ]
    ELSE
      LET user == RollOver(named, thisWeek)
          weeklyLimit == IF user.isPro THEN quotaConfig.proWeeklyLimit
                                       ELSE quotaConfig.normalWeeklyLimit
      IN
      IF WeeklyAllows(user, weeklyLimit)
      THEN [ users  |-> Put(users, userId, ConsumeWeekly(user)),
             saved  |-> TRUE,
             result |-> QuotaResult(TRUE, "weekly_free",
                                    weeklyLimit - ConsumeWeekly(user).weeklyUsage,
                                    FALSE, user.isPro) ]
      ELSE IF user.extraQuota > 0
      THEN [ users  |-> Put(users, userId, ConsumeExtra(user)),
             saved  |-> TRUE,
             result |-> QuotaResult(TRUE, "extra_quota",
                                    ConsumeExtra(user).extraQuota,
                                    FALSE, user.isPro) ]
      ELSE Denied(users, userId, user)

\* weekly usage as GET /api/admin/quota/users reports it for one stored row
AdminListedWeeklyUsage(data, thisWeek) ==
  IF data.currentWeek = thisWeek THEN data.weeklyUsage ELSE 0

\* weekly usage as GET /api/user/quota reports it for subject userId
UserQuotaWeeklyUsage(users, thisWeek, userId) ==
  IF userId = "" \/ userId \notin DOMAIN users
  THEN 0
  ELSE IF users[userId].currentWeek = thisWeek
       THEN users[userId].weeklyUsage
       ELSE 0

\* ------------------------------------------------- redemption-code registry
\* A registry blob ('quota:codes') is a function from the codes it holds to
\* their rows (createTime, which no decision reads, is left out).
NoCodes == [x \in {} |-> 0]

CodeRow(type, quota, remark) == [ type |-> type, quota |-> quota, remark |-> remark ]

\* `parseInt(amount) || 10` and `parseInt(count) || 1` for integer inputs
DEFAULT_CODE_QUOTA == 10
DEFAULT_GENERATE_COUNT == 1
UNLIMITED_CODE_QUOTA == 0 - 1
PRO_CODE_QUOTA == 0
ParseOr(i, default) == IF i = 0 THEN default ELSE i

\* the tokens the three generators can draw (Math.random / Date.now): a grant
\* token is "PRO-" and 8 upper-case characters, a pro token "PRO-XXXX-XXXX",
\* an unlimited token "dzwdsg" and 6 digits
GrantTokens == {"PRO-A1", "PRO-B2"}
ProTokens == {"PRO-AA-BB"}
UnlimitedTokens == {"dzwdsg01", "dzwdsg02"}
TokensOf(type) ==
  IF type = "quota" THEN GrantTokens
  ELSE IF type = "pro" THEN ProTokens
  ELSE UnlimitedTokens

\* the code strings a redeem request can carry; "" is a missing code
RedeemInputs ==
  {"PRO-A1", "Pro-a1", " PRO-A1 ", "PRO-B2", "PRO-AA-BB",
   "dzwdsg01", "DZWDSG01", "nocode", ""}

\* String#trim, #toUpperCase and #toLowerCase on the strings above
trim(s) == IF s = " PRO-A1 " THEN "PRO-A1" ELSE s

toUpperCase(s) ==
  CASE s \in {"PRO-A1", "Pro-a1"} -> "PRO-A1"
    [] s \in {"dzwdsg01", "DZWDSG01"} -> "DZWDSG01"
    [] s = "nocode" -> "NOCODE"
    [] OTHER -> s

toLowerCase(s) ==
  CASE s \in {"PRO-A1", "Pro-a1"} -> "pro-a1"
    [] s \in {"dzwdsg01", "DZWDSG01"} -> "dzwdsg01"
    [] s = "PRO-B2" -> "pro-b2"
    [] s = "PRO-AA-BB" -> "pro-aa-bb"
    [] OTHER -> s

\* the generators' loop: draws[i] is the token the i-th iteration computes;
\* `codes[code] = {...}` stores the row under it, whatever was there
RECURSIVE GenerateLoop(_, _, _)
GenerateLoop(codes, draws, row) ==
  IF draws = << >> THEN codes
  ELSE GenerateLoop([x \in (DOMAIN codes) \cup {Head(draws)} |->
                       IF x = Head(draws) THEN row ELSE codes[x]],
                    Tail(draws), row)

\* POST /api/admin/codes/generate, generate-unlimited and generate-pro from
\* the point where getQuotaCodes has returned `codes`: the blob handed to
\* saveQuotaCodes and the newCodes array of the response
generateCodes(codes, type, quota, remark, draws) ==
  [ codes    |-> GenerateLoop(codes, draws, CodeRow(type, quota, remark)),
    newCodes |-> draws ]

\* the lookup of redeem: the input as typed, then upper-cased, then
\* lower-cased; "" when none is a key of the blob
MatchCode_exactOnly(codes, cleanCode) ==
  IF cleanCode \in DOMAIN codes THEN cleanCode ELSE ""

MatchCode(codes, cleanCode) ==
  IF cleanCode \in DOMAIN codes THEN cleanCode
  ELSE IF toUpperCase(cleanCode) \in DOMAIN codes THEN toUpperCase(cleanCode)
  ELSE IF toLowerCase(cleanCode) \in DOMAIN codes THEN toLowerCase(cleanCode)
  ELSE ""

\* the row redeem creates for an unseen subject (no totalUsage field, read
\* as 0 everywhere)
RedeemNewUser(week, nickname) ==
  [ weeklyUsage |-> 0,
    currentWeek |-> week,
    extraQuota  |-> 0,
    isUnlimited |-> FALSE,
    isPro       |-> FALSE,
    totalUsage  |-> 0,
    nickname    |-> IF nickname # "" THEN nickname ELSE DefaultNickname ]

\* `delete codes[code]`
Remove(codes, code) == [x \in (DOMAIN codes) \ {code} |-> codes[x]]

\* the three effects of a successful redeem on the subject's row
ApplyUnlimited(user) == [user EXCEPT !.isUnlimited = TRUE]

ApplyPro(user) == [user EXCEPT !.isPro = TRUE]

ApplyGrant_overwrite(user, quota) == [user EXCEPT !.extraQuota = quota]

ApplyGrant(user, quota) == [user EXCEPT !.extraQuota = user.extraQuota + quota]

\* the 404 answer of redeem: nothing is saved
RedeemNotFound_creatingRow(codes, users, week, userId, nickname) ==
  [ status |-> "not_found", matched |-> "", kind |-> "none",
    codes |-> codes,
    users |-> IF userId \in DOMAIN users THEN users
              ELSE Put(users, userId, RedeemNewUser(week, nickname)),
    save |-> TRUE,
    isUnlimited |-> FALSE, isPro |-> FALSE, totalExtra |-> 0 ]

RedeemNotFound(codes, users, week, userId, nickname) ==
  [ status |-> "not_found", matched |-> "", kind |-> "none",
    codes |-> codes, users |-> users, save |-> FALSE,
    isUnlimited |-> FALSE, isPro |-> FALSE, totalExtra |-> 0 ]

\* the removal of the redeemed code from the blob that is saved
ConsumeCode_keep(codes, code) == codes

ConsumeCode(codes, code) == Remove(codes, code)

\* POST /api/user/redeem from the point where getQuotaCodes and
\* getQuotaUsers have returned `codes` and `users`.  The value is
\*   status  |-> "bad_request" (400), "not_found" (404) or "success",
\*   matched |-> the registry key that was matched, kind its branch,
\*   codes, users |-> the blobs handed to saveQuotaCodes / saveQuotaUsers
\*               when save is TRUE,
\*   isUnlimited, isPro, totalExtra |-> the data of the response.
redeem(codes, users, week, code, userId, nickname) ==
  IF code = "" \/ userId = ""
  THEN [ status |-> "bad_request", matched |-> "", kind |-> "none",
         codes |-> codes, users |-> users, save |-> FALSE,
         isUnlimited |-> FALSE, isPro |-> FALSE, totalExtra |-> 0 ]
  ELSE
    LET matchedCode == MatchCode(codes, trim(code)) IN
    IF matchedCode = ""
    THEN RedeemNotFound(codes, users, week, userId, nickname)
    ELSE
      LET codeData == codes[matchedCode]
          user == IF userId \in DOMAIN users THEN users[userId]
                  ELSE RedeemNewUser(week, nickname)
      IN
      IF codeData.type = "unlimited" \/ codeData.quota = UNLIMITED_CODE_QUOTA
      THEN [ status |-> "success", matched |-> matchedCode, kind |-> "unlimited",
             codes |-> ConsumeCode(codes, matchedCode),
             users |-> Put(users, userId, ApplyUnlimited(user)),
             save |-> TRUE,
             isUnlimited |-> TRUE, isPro |-> user.isPro,
             totalExtra |-> user.extraQuota ]
      ELSE IF codeData.type = "pro"
      THEN [ status |-> "success", matched |-> matchedCode, kind |-> "pro",
             codes |-> ConsumeCode(codes, matchedCode),
             users |-> Put(users, userId, ApplyPro(user)),
             save |-> TRUE,
             isUnlimited |-> FALSE, isPro |-> TRUE,
             totalExtra |-> user.extraQuota ]
      ELSE [ status |-> "success", matched |-> matchedCode, kind |-> "grant",
             codes |-> ConsumeCode(codes, matchedCode),
             users |-> Put(users, userId, ApplyGrant(user, codeData.quota)),
             save |-> TRUE,
             isUnlimited |-> FALSE, isPro |-> user.isPro,
             totalExtra |-> ApplyGrant(user, codeData.quota).extraQuota ]

\* ---------------------------------------------- usage journal and caches
\* A journal (the mirror usageLogs or the persisted blob 'usage:logs') is the
\* sequence of its entries, oldest first; an entry is represented by the
\* number of the append that made it.
Entries(k) == [i \in 1..k |-> i]

\* Array#slice(-n): the last n elements
sliceLast_first(logs, n) ==
  IF Len(logs) > n THEN SubSeq(logs, 1, n) ELSE logs

sliceLast(logs, n) ==
  IF Len(logs) > n THEN SubSeq(logs, Len(logs) - n + 1, Len(logs)) ELSE logs

\* usageLogs.push(logEntry) and the cap that follows it
pushCapped(logs, entry) ==
  IF Len(Append(logs, entry)) > MAX_USAGE_LOGS
  THEN sliceLast(Append(logs, entry), MAX_USAGE_LOGS)
  ELSE Append(logs, entry)

\* `if (!usageLogsInitialized) await initUsageLogs()` at the top of
\* logUserUsage, the load being served by the store: the mirror and the
\* per-user count afterwards
ensureLoaded_skip(initialized, logs, stats, stored) ==
  [ logs |-> logs, stats |-> stats, loaded |-> FALSE ]

ensureLoaded(initialized, logs, stats, stored) ==
  IF initialized
  THEN [ logs |-> logs, stats |-> stats, loaded |-> FALSE ]
  ELSE [ logs |-> stored, stats |-> stats + Len(stored), loaded |-> TRUE ]

\* a reclaimer whose light tier starts at the threshold itself
cleanIdleResources_inclusive(minutes, clients, locations, sdk, logs, stats, initialized) ==
  LET light == minutes >= IDLE_THRESHOLD
      deep  == minutes > DEEP_CLEAN_THRESHOLD
      drop  == deep /\ (Len(logs) > 0 \/ initialized)
  IN [ clients     |-> IF light THEN {} ELSE clients,
       locations   |-> IF light THEN {} ELSE locations,
       sdk         |-> IF deep THEN FALSE ELSE sdk,
       logs        |-> IF drop THEN << >> ELSE logs,
       stats       |-> IF drop THEN 0 ELSE stats,
       initialized |-> IF drop THEN FALSE ELSE initialized,
       deep        |-> deep,
       dropped     |-> drop ]

\* cleanIdleResources() at idle time `minutes`: what is left of the two
\* caches, the SDK module and the journal mirror
cleanIdleResources(minutes, clients, locations, sdk, logs, stats, initialized) ==
  LET light == minutes > IDLE_THRESHOLD
      deep  == minutes > DEEP_CLEAN_THRESHOLD
      drop  == deep /\ (Len(logs) > 0 \/ initialized)
  IN [ clients     |-> IF light THEN {} ELSE clients,
       locations   |-> IF light THEN {} ELSE locations,
       sdk         |-> IF deep THEN FALSE ELSE sdk,
       logs        |-> IF drop THEN << >> ELSE logs,
       stats       |-> IF drop THEN 0 ELSE stats,
       initialized |-> IF drop THEN FALSE ELSE initialized,
       deep        |-> deep,
       dropped     |-> drop ]

\* ------------------------------------------------- persistence facade
\* How a piece of code ends: it returns value v (done), it throws (threw),
\* or it runs off its end without returning (neither).
Return(v) == [ threw |-> FALSE, done |-> TRUE, value |-> v ]
Throw == [ threw |-> TRUE, done |-> FALSE, value |-> "error" ]
Fall == [ threw |-> FALSE, done |-> FALSE, value |-> "none" ]

\* try { body } catch { handler }
Catch(body, handler) == IF body.threw THEN handler ELSE body

\* first; second: the second part runs when the first ran off its end
Then(first, second) == IF first.done \/ first.threw THEN first ELSE second

\* The remote backend as one call meets it: configured tells whether both
\* environment variables are set; outcome is a rejected fetch, a non-OK
\* status, a body response.json() rejects, or an answer; stored is what the
\* key holds: nothing, a string JSON.parse rejects, or a serialized blob.
Remotes ==
  [ configured : BOOLEAN,
    outcome : {"transport_error", "non_ok", "bad_body", "ok"},
    stored : {"absent", "unparsable", "blob"} ]

\* The local store: whether DATA_DIR exists, whether the file is missing,
\* unparsable or a serialized object, and whether writeFileSync throws.
Locals ==
  [ dir : BOOLEAN,
    file : {"missing", "unparsable", "ok"},
    writeFails : BOOLEAN ]

\* JSON.parse of a stored string
jsonParse(str, blob) == IF str = "unparsable" THEN Throw ELSE Return(blob)

\* fetch and response.json() against the remote backend
Fetch(remote) ==
  IF remote.outcome \in {"transport_error", "bad_body"} THEN Throw
  ELSE Return(remote.outcome)

\* redisCommand(command, ...args): data.result, or null
redisCommand_noCatch(remote) ==
  IF ~remote.configured THEN Return("null")
  ELSE IF remote.outcome # "ok" THEN Throw
  ELSE Return(IF remote.stored = "absent" THEN "null" ELSE remote.stored)

redisCommand(remote) ==
  IF ~remote.configured THEN Return("null")
  ELSE Catch(IF remote.outcome # "ok" THEN Throw
             ELSE Return(IF remote.stored = "absent" THEN "null" ELSE remote.stored),
             Return("null"))

\* the local file exists (fs.existsSync(QUOTA_FILE))
FileExists(local) == local.dir /\ local.file # "missing"

\* the `if (USE_REDIS) { try { ... } catch { } }` part of a get: an answer
\* is parsed and returned, a null answer is returned as {}
ReadRemote(remote) ==
  IF ~remote.configured THEN Fall
  ELSE LET data == redisCommand(remote)
       IN Catch(IF data.threw THEN Throw
                ELSE IF data.value = "null" THEN Return("empty")
                ELSE jsonParse(data.value, "remote-blob"),
                Fall)

\* the local part of a get: try { if (exists) return parsed.field || {} }
ReadLocal_noCatch(local) ==
  IF FileExists(local) THEN jsonParse(local.file, "local-blob") ELSE Fall

ReadLocal(local) ==
  Catch(IF FileExists(local) THEN jsonParse(local.file, "local-blob") ELSE Fall,
        Fall)

getQuotaUsers(remote, local) ==
  Then(ReadRemote(remote), Then(ReadLocal(local), Return("empty")))

getQuotaCodes(remote, local) ==
  Then(ReadRemote(remote), Then(ReadLocal(local), Return("empty")))

\* getQuotaConfig returns the remote answer only when there is one, and
\* DEFAULT_QUOTA_CONFIG when neither backend has a config
getQuotaConfig(remote, local) ==
  Then(IF ~remote.configured THEN Fall
       ELSE LET data == redisCommand(remote)
            IN Catch(IF data.threw THEN Throw
                     ELSE IF data.value = "null" THEN Fall
                     ELSE jsonParse(data.value, "remote-blob"),
                     Fall),
       Then(ReadLocal(local), Return("default")))

\* the `if (USE_REDIS) { try { await redisCommand(SETEX); return } ... }`
\* part of a set: the value tells where the blob went
WriteRemote(remote) ==
  IF ~remote.configured THEN Fall
  ELSE LET answer == redisCommand(remote)
       IN Catch(IF answer.threw THEN Throw
                ELSE Return(IF answer.value = "null" THEN "lost" ELSE "remote"),
                Fall)

\* the local part of a set: the file is read, merged and written back
WriteLocal(local) ==
  Catch(IF ~local.dir THEN Fall
        ELSE IF local.file = "unparsable" THEN Throw
        ELSE IF local.writeFails THEN Throw
        ELSE Return("local"),
        Fall)

saveQuotaUsers(remote, local) ==
  Then(WriteRemote(remote), Then(WriteLocal(local), Return("lost")))

saveQuotaCodes(remote, local) ==
  Then(WriteRemote(remote), Then(WriteLocal(local), Return("lost")))

saveQuotaConfig(remote, local) ==
  Then(WriteRemote(remote), Then(WriteLocal(local), Return("lost")))

\* _doInitUsageLogs: its own fetch of 'usage:logs', then the local file; the
\* value tells what the mirror was loaded from
doInitUsageLogs(remote, local) ==
  Then(IF ~remote.configured THEN Fall
       ELSE Catch(LET response == Fetch(remote)
                  IN IF response.threw THEN Throw
                     ELSE IF response.value # "ok" THEN Fall
                     ELSE IF remote.stored = "absent" THEN Fall
                     ELSE jsonParse(remote.stored, "remote-blob"),
                  Fall),
       Then(ReadLocal(local), Return("empty")))

\* saveUsageLogs: SETEX through its own fetch; the local file is written
\* when the remote backend did not answer OK
saveUsageLogs(remote, local) ==
  Then(IF ~remote.configured THEN Fall
       ELSE Catch(LET response == Fetch(remote)
                  IN IF response.threw THEN Throw
                     ELSE IF response.value = "ok" THEN Return("remote")
                     ELSE Fall,
                  Fall),
       Then(Catch(IF ~local.dir THEN Fall
                  ELSE IF local.writeFails THEN Throw
                  ELSE Return("local"),
                  Fall),
            Return("lost")))

\* ---------------------------------------------------------- admission gate
\* acquireSlot called by request r: the promise executor runs synchronously.
\* granted tells whether resolve() was called at once.
acquireSlot_offByOne(active, queue, r) ==
  IF active <= MAX_CONCURRENT_REQUESTS
  THEN [ active |-> active + 1, queue |-> queue, granted |-> TRUE ]
  ELSE [ active |-> active, queue |-> Append(queue, r), granted |-> FALSE ]

acquireSlot(active, queue, r) ==
  IF active < MAX_CONCURRENT_REQUESTS
  THEN [ active |-> active + 1, queue |-> queue, granted |-> TRUE ]
  ELSE [ active |-> active, queue |-> Append(queue, r), granted |-> FALSE ]

\* releaseSlot: next is the set (empty or a singleton) of requests whose
\* resolve callback was called.
releaseSlot_lifo(active, queue) ==
  IF Len(queue) > 0
  THEN [ active |-> (active - 1) + 1,
         queue |-> SubSeq(queue, 1, Len(queue) - 1),
         next |-> {queue[Len(queue)]} ]
  ELSE [ active |-> active - 1, queue |-> queue, next |-> {} ]

releaseSlot_dropWaiter(active, queue) ==
  IF Len(queue) > 0
  THEN [ active |-> active - 1, queue |-> Tail(queue), next |-> {} ]
  ELSE [ active |-> active - 1, queue |-> queue, next |-> {} ]

releaseSlot_noHandOff(active, queue) ==
  [ active |-> active - 1, queue |-> queue, next |-> {} ]

releaseSlot(active, queue) ==
  IF Len(queue) > 0
  THEN [ active |-> (active - 1) + 1, queue |-> Tail(queue), next |-> {Head(queue)} ]
  ELSE [ active |-> active - 1, queue |-> queue, next |-> {} ]

\* ------------------------------------------------------------------ state
VARIABLES
  activeRequests,  \* the gate's counter of slot holders
  requestQueue,    \* the gate's queue of suspended acquireSlot callers
  quotaUsers,      \* the persisted ledger blob 'quota:users'
  quotaConfig,     \* the persisted global QuotaConfig
  clock,           \* index into Dates of the current instant
  pc,              \* per request: the await point its handler is suspended at
  ep,              \* per request: the endpoint it was posted to
  quotaCall,       \* per request: locals of its checkAndConsumeQuota call
  hist,            \* per request: history of its gate calls
  arrivalOrder,    \* the suspended acquireSlot callers in the order of their calls
  last,            \* SpecQuota: the most recent sequential call and its result
  weekLog,         \* SpecQuota: per subject, its calls in the week of its last call
  quotaCodes,      \* the persisted registry blob 'quota:codes'
  rd,              \* per redeem request: its await point and its locals
  upgraded,        \* subjects whose redeem of an unlimited code has succeeded
  lastOp,          \* SpecCodes: the most recent registry operation and its result
  usageLogs,       \* the in-memory mirror of the usage journal
  usageLogsInitialized, \* whether the mirror has been loaded
  userStats,       \* per user key: the cumulative count of the mirror
  storedLogs,      \* the persisted journal blob 'usage:logs'
  clientCache,     \* the API keys that have a cached client
  ipLocationCache, \* the addresses that have a cached location
  GoogleGenAI,     \* whether the SDK module is loaded
  idle,            \* how long ago lastRequestTime was set, as a tier
  lastJ,           \* SpecJournal: the most recent journal operation and its result
  facade,          \* SpecStore: the most recent persistence call and its outcome
  now,             \* SpecCalendar: the current instant
  weekId,          \* SpecCalendar: the last value of getCurrentWeekId() and its instant
  initUsageLogsPromise, \* the load whose promise the variable holds, 0 for null
  loads,           \* SpecMirror: the _doInitUsageLogs calls made, running or done
  appends,         \* SpecMirror: per logUserUsage call, its await point and locals
  lastCfg          \* SpecConfig: the most recent config update and its answer

codeVars    == << quotaCodes, rd, upgraded, lastOp >>
journalVars == << usageLogs, usageLogsInitialized, userStats, storedLogs,
                  clientCache, ipLocationCache, GoogleGenAI, idle, lastJ >>
storeVars   == << facade >>
calVars     == << now, weekId >>
mirrorVars  == << initUsageLogsPromise, loads, appends >>
adminVars   == << lastCfg >>
extVars     == << codeVars, journalVars, storeVars, calVars, mirrorVars, adminVars >>

vars == << activeRequests, requestQueue, quotaUsers, quotaConfig, clock,
           pc, ep, quotaCall, hist, arrivalOrder, last, weekLog, extVars >>

gateVars    == << activeRequests, requestQueue >>
handlerVars == << pc, ep, quotaCall, hist, arrivalOrder >>
seqVars     == << last, weekLog >>

thisWeek == getCurrentWeekId(Dates[clock])

\* the QuotaConfig values a deployment of the model stores
Configs == [ normalWeeklyLimit : 0..MaxLimit, proWeeklyLimit : {MaxLimit} ]

NoCall == [ userId |-> "", nickname |-> "", users |-> NoUsers, save |-> FALSE,
            quota |-> "none" ]
\* granted / released count the slots handed to the request and its
\* releaseSlot calls; waited tells whether its acquireSlot suspended it;
\* abandoned tells whether its client gave the request up while it waited;
\* logged tells whether its logUserUsage call has appended its journal entry
NoHist == [ granted |-> 0, released |-> 0, waited |-> FALSE, abandoned |-> FALSE,
            logged |-> FALSE ]
NoLast == [ userId |-> "", saved |-> FALSE, week |-> <<0, 0>>,
            result |-> QuotaResult(TRUE, "none", 0, FALSE, FALSE) ]

\* effective (rollover-corrected) weekly usage of subject u in blob users
EffectiveUsage(users, week, u) ==
  IF u \in DOMAIN users /\ users[u].currentWeek = week
  THEN users[u].weeklyUsage
  ELSE 0

StoredExtra(users, u) == IF u \in DOMAIN users THEN users[u].extraQuota ELSE 0

\* the week log of a subject that has made no call in week `week` yet:
\* base is its effective weekly usage and extra its extraQuota at that point
FreshLog(users, week, u) ==
  [ week |-> week, n |-> 0,
    base |-> EffectiveUsage(users, week, u),
    extra |-> StoredExtra(users, u) ]

\* number of calls subjects have made in the current week
RECURSIVE SumCalls(_, _)
SumCalls(log, S) ==
  IF S = {} THEN 0
  ELSE LET u == CHOOSE x \in S : TRUE
       IN (IF log[u].week = thisWeek THEN log[u].n ELSE 0) + SumCalls(log, S \ {u})

CallsThisWeek == SumCalls(weekLog, Subjects)

\* ------------------------------------- values before any operation has run
NoRedeem == [ pc |-> "idle", code |-> "", userId |-> "", nickname |-> "",
              codes |-> NoCodes, users |-> NoUsers,
              gotCodes |-> FALSE, gotUsers |-> FALSE,
              putCodes |-> FALSE, putUsers |-> FALSE,
              status |-> "none", matched |-> "", kind |-> "none" ]

NoOp == [ n |-> 0, op |-> "none", code |-> "", userId |-> "",
          status |-> "none", matched |-> "", kind |-> "none",
          count |-> 0, newCodes |-> << >> ]

\* n counts the journal operations, entry is the id of the newest entry,
\* count the deletedCount of a purge, reloaded whether an append loaded the
\* mirror first, usable whether createClient returned a client, rebuilt what
\* has been rebuilt since the last deep reclamation
NoJ == [ n |-> 0, op |-> "none", entry |-> 0, count |-> 0,
         reloaded |-> FALSE, usable |-> FALSE, rebuilt |-> {} ]

\* a facade call: the function, the state of the two backends it met, and
\* how it ended
NoFacade == [ op |-> "none",
              remote |-> [ configured |-> FALSE, outcome |-> "ok", stored |-> "absent" ],
              local |-> [ dir |-> FALSE, file |-> "missing", writeFails |-> FALSE ],
              threw |-> FALSE, done |-> FALSE, value |-> "none" ]

\* the registry is empty and no redeem request is in progress
CodesIdle ==
  /\ quotaCodes = NoCodes
  /\ rd = << >>
  /\ upgraded = {}
  /\ lastOp = NoOp

\* the journal is empty and loaded, nothing is cached, the SDK is not loaded
JournalIdle ==
  /\ usageLogs = << >>
  /\ usageLogsInitialized = TRUE
  /\ userStats = 0
  /\ storedLogs = << >>
  /\ clientCache = {}
  /\ ipLocationCache = {}
  /\ GoogleGenAI = FALSE
  /\ idle = 0
  /\ lastJ = NoJ

StoreIdle == facade = NoFacade

\* no logUserUsage call is suspended and no load of the mirror is running
MirrorIdle ==
  /\ initUsageLogsPromise = 0
  /\ loads = << >>
  /\ appends = << >>

\* no config update has been made
NoCfg == [ normal |-> [kind |-> "none", n |-> 0],
           pro |-> [kind |-> "none", n |-> 0], status |-> 0 ]
ConfigIdle == lastCfg = NoCfg

\* the calendar of SpecCalendar stands still
NoInstant == [year |-> 0, day |-> 0, half |-> 0]
CalendarIdle ==
  /\ now = NoInstant
  /\ weekId = [at |-> NoInstant, label |-> <<0, 0>>]

\* the handler instances of a behaviour
Reqs == DOMAIN pc

\* no request in progress, n handler instances
HandlerInit(n) ==
  /\ activeRequests = 0
  /\ requestQueue = << >>
  /\ pc = [r \in 1..n |-> "idle"]
  /\ ep = [r \in 1..n |-> "none"]
  /\ quotaCall = [r \in 1..n |-> NoCall]
  /\ hist = [r \in 1..n |-> NoHist]
  /\ arrivalOrder = << >>

SeqInit ==
  /\ last = NoLast
  /\ weekLog = [u \in Subjects |-> FreshLog(quotaUsers, thisWeek, u)]

\* the server after start-up on a fresh store whose QuotaConfig allows one
\* normal-tier consumption per week
StoredConfig == [ normalWeeklyLimit |-> 1, proWeeklyLimit |-> MaxLimit ]

Init ==
  /\ HandlerInit(NumReqs)
  /\ quotaUsers = NoUsers
  /\ quotaConfig = StoredConfig
  /\ clock = 1
  /\ SeqInit
  /\ CodesIdle /\ JournalIdle /\ StoreIdle /\ CalendarIdle /\ MirrorIdle /\ ConfigIdle

InitGate ==
  /\ HandlerInit(NumCallers)
  /\ quotaUsers = NoUsers
  /\ quotaConfig = StoredConfig
  /\ clock = 1
  /\ SeqInit
  /\ CodesIdle /\ JournalIdle /\ StoreIdle /\ CalendarIdle /\ MirrorIdle /\ ConfigIdle

\* ---------------------------------------------------------------- clock
AdvanceClock ==
  /\ clock < Len(Dates)
  /\ clock' = clock + 1
  /\ UNCHANGED << gateVars, quotaUsers, quotaConfig, handlerVars, seqVars, extVars >>

\* ------------------------------------------- SpecQuota: sequential calls
\* rows a ledger already holds when the sequential calls start
OlderWeek == <<2025, 51>>
InitRows ==
  [ weeklyUsage : 0..MaxLimit,
    currentWeek : {getCurrentWeekId(Dates[1]), OlderWeek},
    extraQuota  : 0..MaxExtra,
    isUnlimited : BOOLEAN,
    isPro       : BOOLEAN,
    totalUsage  : {0},
    nickname    : {DefaultNickname} ]

InitQuota ==
  /\ HandlerInit(NumReqs)
  /\ \E S \in SUBSET Subjects :
        /\ Cardinality(S) <= 1
        /\ quotaUsers \in [S -> InitRows]
  /\ quotaConfig \in Configs
  /\ clock = 1
  /\ SeqInit
  /\ CodesIdle /\ JournalIdle /\ StoreIdle /\ CalendarIdle /\ MirrorIdle /\ ConfigIdle

\* one whole call of checkAndConsumeQuota(userId, nickname): both reads, the
\* decision and, on the consuming paths, saveQuotaUsers
CheckAndConsume(userId, nickname) ==
  /\ userId \in Subjects => CallsThisWeek < MaxCalls
  /\ LET out == checkAndConsumeQuota(quotaUsers, quotaConfig, thisWeek,
                                     userId, nickname)
     IN /\ quotaUsers' = IF out.saved THEN out.users ELSE quotaUsers
        /\ last' = [ userId |-> userId, saved |-> out.saved,
                     week |-> thisWeek, result |-> out.result ]
  /\ weekLog' =
       IF userId \in Subjects
       THEN LET log == IF weekLog[userId].week = thisWeek
                       THEN weekLog[userId]
                       ELSE FreshLog(quotaUsers, thisWeek, userId)
            IN [weekLog EXCEPT ![userId] = [log EXCEPT !.n = log.n + 1]]
       ELSE weekLog
  /\ UNCHANGED << gateVars, quotaConfig, clock, handlerVars, extVars >>

NextQuota ==
  \/ \E userId \in Subjects \cup {""}, nickname \in Nicknames :
        CheckAndConsume(userId, nickname)
  \/ AdvanceClock

SpecQuota == InitQuota /\ [][NextQuota]_vars

\* ------------------------------------------------ Spec: request handlers
GatedEndpoints == {"image", "image-base64"}

\* whether the handler of `endpoint` calls releaseSlot when it leaves by exit
\* path `exit`: the two image handlers do so in their finally block
ReleasesOnExit_successOnly(endpoint, exit) ==
  endpoint \in GatedEndpoints /\ exit = "success"

ReleasesOnExit(endpoint, exit) == endpoint \in GatedEndpoints

\* a new request is accepted on handler instance r, the first free one
Free(r) == pc[r] \in {"idle", "done"}
Accept(r) ==
  /\ Free(r)
  /\ \A x \in Reqs : x < r => ~Free(x)

\* sequence q without the elements of set S
RECURSIVE Without(_, _)
Without(q, S) ==
  IF q = << >> THEN << >>
  ELSE IF Head(q) \in S THEN Without(Tail(q), S)
  ELSE << Head(q) >> \o Without(Tail(q), S)

\* `await acquireSlot()` at the top of a handler
Acquire(r, endpoint) ==
  LET g == acquireSlot(activeRequests, requestQueue, r)
  IN /\ activeRequests' = g.active
     /\ requestQueue' = g.queue
     /\ pc' = [pc EXCEPT ![r] = IF g.granted THEN "granted" ELSE "queued"]
     /\ ep' = [ep EXCEPT ![r] = endpoint]
     /\ hist' = [hist EXCEPT ![r] =
                   [NoHist EXCEPT !.granted = IF g.granted THEN 1 ELSE 0,
                                  !.waited = ~g.granted]]
     /\ arrivalOrder' = IF g.granted THEN arrivalOrder
                        ELSE Append(arrivalOrder, r)
     /\ quotaCall' = [quotaCall EXCEPT ![r] = NoCall]

\* a handler that does not use the gate starts, and runs to await point p
\* or to its end
Enter(r, endpoint, p) ==
  /\ pc' = [pc EXCEPT ![r] = p]
  /\ ep' = [ep EXCEPT ![r] = IF p = "done" THEN "none" ELSE endpoint]
  /\ hist' = [hist EXCEPT ![r] = NoHist]
  /\ quotaCall' = [quotaCall EXCEPT ![r] = NoCall]
  /\ UNCHANGED << gateVars, arrivalOrder >>

\* the handler of r sends its response on exit path `exit` and returns; the
\* finally block, where there is one, runs releaseSlot
Finish(r, endpoint, exit) ==
  IF ReleasesOnExit(endpoint, exit)
  THEN LET rel == releaseSlot(activeRequests, requestQueue)
       IN /\ activeRequests' = rel.active
          /\ requestQueue' = rel.queue
          /\ pc' = [x \in Reqs |-> IF x = r THEN "done"
                                   ELSE IF x \in rel.next THEN "granted"
                                   ELSE pc[x]]
          /\ hist' = [x \in Reqs |->
                        IF x = r
                        THEN [hist[x] EXCEPT !.released = hist[x].released + 1,
                                             !.waited = FALSE,
                                             !.logged = (pc[x] = "logging")]
                        ELSE IF x \in rel.next
                        THEN [hist[x] EXCEPT !.granted = hist[x].granted + 1]
                        ELSE hist[x]]
          /\ arrivalOrder' = Without(arrivalOrder, rel.next)
          /\ ep' = [ep EXCEPT ![r] = "none"]
  ELSE /\ pc' = [pc EXCEPT ![r] = "done"]
       /\ hist' = [hist EXCEPT ![r].waited = FALSE,
                               ![r].logged = (pc[r] = "logging")]
       /\ ep' = [ep EXCEPT ![r] = "none"]
       /\ UNCHANGED << gateVars, arrivalOrder >>

\* the handler of r, resumed, runs on and suspends at await point p
Goto(r, p) ==
  /\ pc' = [pc EXCEPT ![r] = p]
  /\ hist' = [hist EXCEPT ![r].waited = FALSE]
  /\ UNCHANGED << gateVars, ep, arrivalOrder >>

\* payload validation, getApiKey, createClient and the call of
\* generateContent, at which the handler is suspended
ValidateAndCallInference(r, endpoint, hasPayload, hasKey) ==
  IF ~hasPayload THEN Finish(r, endpoint, "missing_payload")
  ELSE IF ~hasKey THEN Finish(r, endpoint, "no_api_key")
  ELSE Goto(r, "inference")

PostAnalyzeImage(r) ==
  /\ Accept(r)
  /\ Acquire(r, "image")
  /\ UNCHANGED << quotaUsers, quotaConfig, clock, seqVars, extVars >>

ImageGranted(r) ==
  /\ pc[r] = "granted" /\ ep[r] = "image"
  /\ \E hasFile \in BOOLEAN, hasKey \in BOOLEAN :
        ValidateAndCallInference(r, "image", hasFile, hasKey)
  /\ UNCHANGED << quotaUsers, quotaConfig, clock, quotaCall, seqVars, extVars >>

PostAnalyzeImageBase64(r) ==
  /\ Accept(r)
  /\ Acquire(r, "image-base64")
  /\ UNCHANGED << quotaUsers, quotaConfig, clock, seqVars, extVars >>

\* checkAndConsumeQuota is entered; getQuotaUsers returns the stored blob
Base64Granted(r) ==
  /\ pc[r] = "granted" /\ ep[r] = "image-base64"
  /\ \E userIdentifier \in ReqSubjects, nickname \in ReqNicknames :
        quotaCall' = [quotaCall EXCEPT ![r] =
                        [NoCall EXCEPT !.userId = userIdentifier,
                                       !.nickname = nickname,
                                       !.users = quotaUsers]]
  /\ Goto(r, "q_config")
  /\ UNCHANGED << quotaUsers, quotaConfig, clock, seqVars, extVars >>

\* getQuotaConfig returns; the decision is taken; a consuming call issues
\* saveQuotaUsers, a denying call returns and the handler answers 403
QuotaDecide(r) ==
  /\ pc[r] = "q_config"
  /\ LET c == quotaCall[r]
         out == checkAndConsumeQuota(c.users, quotaConfig, thisWeek,
                                     c.userId, c.nickname)
     IN IF out.result.allowed
        THEN /\ quotaCall' = [quotaCall EXCEPT ![r] =
                                [c EXCEPT !.users = out.users,
                                          !.save = out.saved,
                                          !.quota = "allowed"]]
             /\ Goto(r, "q_save")
        ELSE /\ quotaCall' = [quotaCall EXCEPT ![r] =
                                [NoCall EXCEPT !.quota = "denied"]]
             /\ Finish(r, "image-base64", "quota_denied")
  /\ UNCHANGED << quotaUsers, quotaConfig, clock, seqVars, extVars >>

\* (a save that would add the call's own consumption to the stored row
\* instead of replacing the blob)
QuotaSaved_merging(r) ==
  /\ pc[r] = "q_save"
  /\ quotaUsers' =
       LET u == quotaCall[r].userId
       IN IF ~quotaCall[r].save THEN quotaUsers
          ELSE IF u \in DOMAIN quotaUsers
          THEN Put(quotaUsers, u,
                   [quotaUsers[u] EXCEPT !.weeklyUsage = quotaUsers[u].weeklyUsage + 1,
                                         !.totalUsage = quotaUsers[u].totalUsage + 1])
          ELSE quotaCall[r].users
  /\ quotaCall' = [quotaCall EXCEPT ![r] = [NoCall EXCEPT !.quota = "allowed"]]
  /\ \E hasBase64 \in BOOLEAN, hasKey \in BOOLEAN :
        ValidateAndCallInference(r, "image-base64", hasBase64, hasKey)
  /\ UNCHANGED << quotaConfig, clock, seqVars, extVars >>

\* (a handler that would check the payload and the key first and consume
\* only when both are there)
QuotaSaved_validating(r) ==
  /\ pc[r] = "q_save"
  /\ quotaCall' = [quotaCall EXCEPT ![r] = [NoCall EXCEPT !.quota = "allowed"]]
  /\ \E hasBase64 \in BOOLEAN, hasKey \in BOOLEAN :
        /\ quotaUsers' = IF quotaCall[r].save /\ hasBase64 /\ hasKey
                         THEN quotaCall[r].users ELSE quotaUsers
        /\ ValidateAndCallInference(r, "image-base64", hasBase64, hasKey)
  /\ UNCHANGED << quotaConfig, clock, seqVars, extVars >>

\* saveQuotaUsers completes: the blob replaces the stored one; the handler
\* goes on with the payload check and the inference call
QuotaSaved(r) ==
  /\ pc[r] = "q_save"
  /\ quotaUsers' = IF quotaCall[r].save THEN quotaCall[r].users ELSE quotaUsers
  /\ quotaCall' = [quotaCall EXCEPT ![r] = [NoCall EXCEPT !.quota = "allowed"]]
  /\ \E hasBase64 \in BOOLEAN, hasKey \in BOOLEAN :
        ValidateAndCallInference(r, "image-base64", hasBase64, hasKey)
  /\ UNCHANGED << quotaConfig, clock, seqVars, extVars >>

PostAnalyzeExcelHeader(r) ==
  /\ Accept(r)
  /\ \E hasHeaders \in BOOLEAN, hasKey \in BOOLEAN :
        Enter(r, "excel-header",
              IF hasHeaders /\ hasKey THEN "inference" ELSE "done")
  /\ UNCHANGED << quotaUsers, quotaConfig, clock, seqVars, extVars >>

\* POST /api/summary/text up to its quota check (the summary ledger
\* 'summary:users' is not part of this model: the outcome of
\* checkAndConsumeSummaryQuota is chosen when it returns)
PostSummaryText(r) ==
  /\ Accept(r)
  /\ \E valid \in BOOLEAN :
        Enter(r, "summary-text", IF valid THEN "s_quota" ELSE "done")
  /\ UNCHANGED << quotaUsers, quotaConfig, clock, seqVars, extVars >>

SummaryQuotaReturn(r) ==
  /\ pc[r] = "s_quota"
  /\ \E allowed \in BOOLEAN, configured \in BOOLEAN :
        IF ~allowed THEN Finish(r, ep[r], "quota_denied")
        ELSE IF ~configured THEN Finish(r, ep[r], "no_api_key")
        ELSE Goto(r, "inference")
  /\ UNCHANGED << quotaUsers, quotaConfig, clock, quotaCall, seqVars, extVars >>

\* POST /api/summary/images: no quota check, callSummaryAI at once
PostSummaryImages(r) ==
  /\ Accept(r)
  /\ \E valid \in BOOLEAN, configured \in BOOLEAN :
        Enter(r, "summary-images",
              IF valid /\ configured THEN "inference" ELSE "done")
  /\ UNCHANGED << quotaUsers, quotaConfig, clock, seqVars, extVars >>

\* the external inference call returns or throws
InferenceReturn(r) ==
  /\ pc[r] = "inference"
  /\ \E outcome \in {"ok", "error", "unparseable"} :
        IF outcome = "error" THEN Finish(r, ep[r], "inference_error")
        ELSE IF outcome = "unparseable"
        THEN /\ ep[r] \in {"image", "image-base64", "excel-header"}
             /\ Finish(r, ep[r], "unparseable")
        ELSE IF ep[r] = "excel-header" THEN Finish(r, ep[r], "success")
        ELSE Goto(r, "logging")
  /\ UNCHANGED << quotaUsers, quotaConfig, clock, quotaCall, seqVars, extVars >>

\* logUserUsage has returned: the response is sent
LogDone(r) ==
  /\ pc[r] = "logging"
  /\ Finish(r, ep[r], "success")
  /\ UNCHANGED << quotaUsers, quotaConfig, clock, quotaCall, seqVars, extVars >>

Next ==
  \/ \E r \in Reqs : PostAnalyzeImage(r)
  \/ \E r \in Reqs : ImageGranted(r)
  \/ \E r \in Reqs : PostAnalyzeImageBase64(r)
  \/ \E r \in Reqs : Base64Granted(r)
  \/ \E r \in Reqs : QuotaDecide(r)
  \/ \E r \in Reqs : QuotaSaved(r)
  \/ \E r \in Reqs : PostAnalyzeExcelHeader(r)
  \/ \E r \in Reqs : PostSummaryText(r)
  \/ \E r \in Reqs : SummaryQuotaReturn(r)
  \/ \E r \in Reqs : PostSummaryImages(r)
  \/ \E r \in Reqs : InferenceReturn(r)
  \/ \E r \in Reqs : LogDone(r)

Spec == Init /\ [][Next]_vars

NextGate ==
  \/ \E r \in Reqs : PostAnalyzeImage(r)
  \/ \E r \in Reqs : ImageGranted(r)
  \/ \E r \in Reqs : InferenceReturn(r)
  \/ \E r \in Reqs : LogDone(r)

SpecGate == InitGate /\ [][NextGate]_vars

\* ------------------------------- SpecGateLive: the gate with fair holders
\* The client of a queued request gives up (closes the connection, times
\* out).  No handler listens for it and the promise of acquireSlot has no
\* reject path: the resolve callback stays in requestQueue.
ClientAbandons(r) ==
  /\ pc[r] = "queued"
  /\ ~hist[r].abandoned
  /\ hist' = [hist EXCEPT ![r].abandoned = TRUE]
  /\ UNCHANGED << gateVars, quotaUsers, quotaConfig, clock, pc, ep, quotaCall,
                  arrivalOrder, seqVars, extVars >>

NextGateLive ==
  \/ NextGate
  \/ \E r \in Reqs : ClientAbandons(r)

\* every request that holds a slot eventually finishes its handler: each
\* await of a slot holder eventually settles
HolderStep(r) == ImageGranted(r) \/ InferenceReturn(r) \/ LogDone(r)
HoldersFinish == \A r \in 1..NumLive : WF_vars(HolderStep(r))

InitGateLive ==
  /\ HandlerInit(NumLive)
  /\ quotaUsers = NoUsers
  /\ quotaConfig = StoredConfig
  /\ clock = 1
  /\ SeqInit
  /\ CodesIdle /\ JournalIdle /\ StoreIdle /\ CalendarIdle /\ MirrorIdle /\ ConfigIdle

SpecGateLive == InitGateLive /\ [][NextGateLive]_vars /\ HoldersFinish

\* ------------------------------ SpecCodes: sequential registry operations
\* every generate, redeem and delete runs to completion before the next
\* starts; every read and write of the store succeeds
AmountInputs == {UNLIMITED_CODE_QUOTA, 0} \cup (1..MaxAmount)
CountInputs == 0..MaxCount

\* rows the ledger already holds when the registry operations start
InitCodeRows ==
  [ weeklyUsage : {0},
    currentWeek : {getCurrentWeekId(Dates[1])},
    extraQuota  : {0, MaxExtra},
    isUnlimited : BOOLEAN,
    isPro       : BOOLEAN,
    totalUsage  : {0},
    nickname    : {DefaultNickname} ]

InitCodes ==
  /\ HandlerInit(NumReqs)
  /\ \E S \in SUBSET {"u1"} : quotaUsers \in [S -> InitCodeRows]
  /\ quotaConfig = StoredConfig
  /\ clock = 1
  /\ SeqInit
  /\ CodesIdle /\ JournalIdle /\ StoreIdle /\ CalendarIdle /\ MirrorIdle /\ ConfigIdle

\* the common part of the three generate endpoints: getQuotaCodes, the loop
\* over generateCount random tokens, saveQuotaCodes and the response
Generate(type, quota, count) ==
  /\ lastOp.n < MaxOps
  /\ \E draws \in [1..ParseOr(count, DEFAULT_GENERATE_COUNT) -> TokensOf(type)] :
        LET out == generateCodes(quotaCodes, type, quota, "", draws)
        IN /\ quotaCodes' = out.codes
           /\ lastOp' = [NoOp EXCEPT !.n = lastOp.n + 1, !.op = "generate",
                                     !.kind = type, !.count = count,
                                     !.status = "success",
                                     !.newCodes = out.newCodes]
  /\ UNCHANGED << gateVars, quotaUsers, quotaConfig, clock, handlerVars, seqVars,
                  rd, upgraded, journalVars, storeVars, calVars,
                  mirrorVars, adminVars >>

PostCodesGenerate ==
  \E amount \in AmountInputs, count \in CountInputs :
    Generate("quota", ParseOr(amount, DEFAULT_CODE_QUOTA), count)

PostCodesGenerateUnlimited ==
  \E count \in CountInputs : Generate("unlimited", UNLIMITED_CODE_QUOTA, count)

PostCodesGeneratePro ==
  \E count \in CountInputs : Generate("pro", PRO_CODE_QUOTA, count)

\* DELETE /api/admin/codes/:code
DeleteCode(code) ==
  /\ lastOp.n < MaxOps
  /\ quotaCodes' = IF code \in DOMAIN quotaCodes THEN Remove(quotaCodes, code)
                   ELSE quotaCodes
  /\ lastOp' = [NoOp EXCEPT !.n = lastOp.n + 1, !.op = "delete", !.code = code,
                            !.status = IF code \in DOMAIN quotaCodes
                                       THEN "success" ELSE "not_found"]
  /\ UNCHANGED << gateVars, quotaUsers, quotaConfig, clock, handlerVars, seqVars,
                  rd, upgraded, journalVars, storeVars, calVars,
                  mirrorVars, adminVars >>

\* one whole POST /api/user/redeem: both reads, the lookup, the effect and,
\* on success, both writes
Redeem(code, userId, nickname) ==
  /\ lastOp.n < MaxOps
  /\ LET out == redeem(quotaCodes, quotaUsers, thisWeek, code, userId, nickname)
     IN /\ quotaCodes' = IF out.save THEN out.codes ELSE quotaCodes
        /\ quotaUsers' = IF out.save THEN out.users ELSE quotaUsers
        /\ upgraded' = IF out.status = "success" /\ out.kind = "unlimited"
                       THEN upgraded \cup {userId} ELSE upgraded
        /\ lastOp' = [NoOp EXCEPT !.n = lastOp.n + 1, !.op = "redeem",
                                  !.code = code, !.userId = userId,
                                  !.status = out.status,
                                  !.matched = out.matched,
                                  !.kind = out.kind]
  /\ UNCHANGED << gateVars, quotaConfig, clock, handlerVars, seqVars,
                  rd, journalVars, storeVars, calVars,
                  mirrorVars, adminVars >>

NextCodes ==
  \/ PostCodesGenerate
  \/ PostCodesGenerateUnlimited
  \/ PostCodesGeneratePro
  \/ \E code \in GrantTokens \cup ProTokens \cup UnlimitedTokens : DeleteCode(code)
  \/ \E code \in RedeemInputs, userId \in Subjects : Redeem(code, userId, "")
  \/ Redeem("PRO-A1", "", "")

SpecCodes == InitCodes /\ [][NextCodes]_vars

\* ------------------------------ SpecRedeem: concurrent redeem requests
\* redeem requests suspended at their two reads (Promise.all of
\* getQuotaCodes and getQuotaUsers) and their two writes (Promise.all of
\* saveQuotaCodes and saveQuotaUsers), next to image-base64 requests that
\* consume quota; the registry holds one unlimited code and one grant code
StoredCodes ==
  [c \in {"dzwdsg01", "PRO-A1"} |->
     IF c = "dzwdsg01" THEN CodeRow("unlimited", UNLIMITED_CODE_QUOTA, "")
     ELSE CodeRow("quota", 1, "")]

InitRedeem ==
  /\ HandlerInit(NumLedgerCalls)
  /\ quotaUsers = NoUsers
  /\ quotaConfig = StoredConfig
  /\ clock = 1
  /\ SeqInit
  /\ quotaCodes = StoredCodes
  /\ rd = [p \in 1..NumRedeems |-> NoRedeem]
  /\ upgraded = {}
  /\ lastOp = NoOp
  /\ JournalIdle /\ StoreIdle /\ CalendarIdle /\ MirrorIdle /\ ConfigIdle

RedeemFrame ==
  UNCHANGED << gateVars, quotaConfig, clock, handlerVars, seqVars, lastOp,
               journalVars, storeVars, calVars,
                  mirrorVars, adminVars >>

\* the request arrives: a missing code or userId is answered 400, otherwise
\* both reads are issued
RedeemStart(p, code, userId) ==
  /\ rd[p].pc = "idle"
  /\ \A x \in DOMAIN rd : x < p => rd[x].pc # "idle"
  /\ rd' = [rd EXCEPT ![p] =
              IF code = "" \/ userId = ""
              THEN [NoRedeem EXCEPT !.pc = "done", !.code = code,
                                    !.userId = userId, !.status = "bad_request"]
              ELSE [NoRedeem EXCEPT !.pc = "reading", !.code = code,
                                    !.userId = userId]]
  /\ UNCHANGED << quotaCodes, quotaUsers, upgraded >>
  /\ RedeemFrame

\* the state of request p once a read has returned: with both blobs in hand
\* the handler runs on to the 404 answer or to the issue of both writes
RedeemAfterRead(r) ==
  IF ~(r.gotCodes /\ r.gotUsers) THEN r
  ELSE LET out == redeem(r.codes, r.users, thisWeek, r.code, r.userId, r.nickname)
       IN IF out.save
          THEN [r EXCEPT !.pc = "writing", !.codes = out.codes,
                         !.users = out.users, !.matched = out.matched,
                         !.kind = out.kind]
          ELSE [r EXCEPT !.pc = "done", !.codes = NoCodes, !.users = NoUsers,
                         !.status = out.status]

RedeemGotCodes(p) ==
  /\ rd[p].pc = "reading" /\ ~rd[p].gotCodes
  /\ rd' = [rd EXCEPT ![p] =
              RedeemAfterRead([rd[p] EXCEPT !.gotCodes = TRUE,
                                            !.codes = quotaCodes])]
  /\ UNCHANGED << quotaCodes, quotaUsers, upgraded >>
  /\ RedeemFrame

RedeemGotUsers(p) ==
  /\ rd[p].pc = "reading" /\ ~rd[p].gotUsers
  /\ rd' = [rd EXCEPT ![p] =
              RedeemAfterRead([rd[p] EXCEPT !.gotUsers = TRUE,
                                            !.users = quotaUsers])]
  /\ UNCHANGED << quotaCodes, quotaUsers, upgraded >>
  /\ RedeemFrame

\* the state of request p once a write has completed: after both, the
\* success response is sent
RedeemAfterWrite(r) ==
  IF r.putCodes /\ r.putUsers
  THEN [r EXCEPT !.pc = "done", !.status = "success",
                 !.codes = NoCodes, !.users = NoUsers]
  ELSE r

Upgraded(r) ==
  IF r.status = "success" /\ r.kind = "unlimited"
  THEN upgraded \cup {r.userId} ELSE upgraded

RedeemPutCodes(p) ==
  /\ rd[p].pc = "writing" /\ ~rd[p].putCodes
  /\ quotaCodes' = rd[p].codes
  /\ LET r == RedeemAfterWrite([rd[p] EXCEPT !.putCodes = TRUE])
     IN rd' = [rd EXCEPT ![p] = r] /\ upgraded' = Upgraded(r)
  /\ UNCHANGED quotaUsers
  /\ RedeemFrame

\* (a save that would write the redeemer's own row only)
RedeemPutUsers_ownRow(p) ==
  /\ rd[p].pc = "writing" /\ ~rd[p].putUsers
  /\ quotaUsers' = Put(quotaUsers, rd[p].userId, rd[p].users[rd[p].userId])
  /\ LET r == RedeemAfterWrite([rd[p] EXCEPT !.putUsers = TRUE])
     IN rd' = [rd EXCEPT ![p] = r] /\ upgraded' = Upgraded(r)
  /\ UNCHANGED quotaCodes
  /\ RedeemFrame

RedeemPutUsers(p) ==
  /\ rd[p].pc = "writing" /\ ~rd[p].putUsers
  /\ quotaUsers' = rd[p].users
  /\ LET r == RedeemAfterWrite([rd[p] EXCEPT !.putUsers = TRUE])
     IN rd' = [rd EXCEPT ![p] = r] /\ upgraded' = Upgraded(r)
  /\ UNCHANGED quotaCodes
  /\ RedeemFrame

\* new image-base64 requests arrive while the stored totalUsage of their
\* subject is below MaxCalls
LedgerCallsLeft ==
  \A u \in ReqSubjects :
    u \in DOMAIN quotaUsers => quotaUsers[u].totalUsage < MaxCalls

NextRedeem ==
  \/ \E p \in DOMAIN rd, code \in DOMAIN StoredCodes \cup {""}, userId \in Subjects :
        RedeemStart(p, code, userId)
  \/ \E p \in DOMAIN rd : RedeemGotCodes(p)
  \/ \E p \in DOMAIN rd : RedeemGotUsers(p)
  \/ \E p \in DOMAIN rd : RedeemPutCodes(p)
  \/ \E p \in DOMAIN rd : RedeemPutUsers(p)
  \/ \E r \in Reqs : LedgerCallsLeft /\ PostAnalyzeImageBase64(r)
  \/ \E r \in Reqs : Base64Granted(r)
  \/ \E r \in Reqs : QuotaDecide(r)
  \/ \E r \in Reqs : QuotaSaved(r)
  \/ \E r \in Reqs : InferenceReturn(r)
  \/ \E r \in Reqs : LogDone(r)

SpecRedeem == InitRedeem /\ [][NextRedeem]_vars

\* the redeem requests alone, no other request touching the ledger
NextRedeemOnly ==
  \/ \E p \in DOMAIN rd, code \in DOMAIN StoredCodes \cup {""}, userId \in Subjects :
        RedeemStart(p, code, userId)
  \/ \E p \in DOMAIN rd : RedeemGotCodes(p)
  \/ \E p \in DOMAIN rd : RedeemGotUsers(p)
  \/ \E p \in DOMAIN rd : RedeemPutCodes(p)
  \/ \E p \in DOMAIN rd : RedeemPutUsers(p)

SpecRedeemOnly == InitRedeem /\ [][NextRedeemOnly]_vars

\* --------------------------------- SpecJournal: sequential journal use
\* appends, purges, client creations, forced reloads and reclaimer ticks,
\* each running to completion before the next starts; every read and write
\* of the store succeeds.  All entries carry one user key, so userStats is
\* the count of that key.
ApiKeys == {"", "env-key", "header-key"}
ENV_API_KEYS == {"env-key"}
Addresses == {"127.0.0.1", "8.8.8.8"}

\* the journal sizes a deployment has reached when the operations start
InitJournal ==
  /\ HandlerInit(NumReqs)
  /\ quotaUsers = NoUsers
  /\ quotaConfig = StoredConfig
  /\ clock = 1
  /\ SeqInit
  /\ CodesIdle /\ StoreIdle /\ CalendarIdle /\ MirrorIdle /\ ConfigIdle
  /\ \E k \in {0, MAX_USAGE_LOGS - 1} :
        /\ storedLogs = Entries(k)
        /\ usageLogs = Entries(k)
        /\ userStats = k
        /\ lastJ = [NoJ EXCEPT !.entry = k]
  /\ usageLogsInitialized = TRUE
  /\ clientCache = {}
  /\ ipLocationCache = {}
  /\ GoogleGenAI = FALSE
  /\ idle = 0

JournalFrame ==
  UNCHANGED << gateVars, quotaUsers, quotaConfig, clock, handlerVars, seqVars,
               codeVars, storeVars, calVars,
                  mirrorVars, adminVars >>

\* one whole logUserUsage: the load of a dropped mirror, the location
\* lookup, the push with its cap, and saveUsageLogs
LogUserUsage(ip, located) ==
  /\ lastJ.n < MaxJournalOps
  /\ LET m == ensureLoaded(usageLogsInitialized, usageLogs, userStats, storedLogs)
         entry == lastJ.entry + 1
     IN /\ usageLogs' = pushCapped(m.logs, entry)
        /\ storedLogs' = pushCapped(m.logs, entry)
        /\ userStats' = m.stats + 1
        /\ usageLogsInitialized' = (usageLogsInitialized \/ m.loaded)
        /\ lastJ' = [lastJ EXCEPT !.n = lastJ.n + 1, !.op = "append",
                                  !.entry = entry, !.count = 0,
                                  !.reloaded = m.loaded, !.usable = FALSE,
                                  !.rebuilt = IF m.loaded
                                              THEN lastJ.rebuilt \cup {"journal"}
                                              ELSE lastJ.rebuilt]
  /\ ipLocationCache' = IF ip = "8.8.8.8" /\ located
                        THEN ipLocationCache \cup {ip} ELSE ipLocationCache
  /\ UNCHANGED << clientCache, GoogleGenAI, idle >>
  /\ JournalFrame

\* DELETE /api/admin/usage-logs
PurgeUsageLogs ==
  /\ lastJ.n < MaxJournalOps
  /\ usageLogs' = << >>
  /\ userStats' = 0
  /\ storedLogs' = << >>
  /\ lastJ' = [lastJ EXCEPT !.n = lastJ.n + 1, !.op = "purge",
                            !.count = Len(usageLogs),
                            !.reloaded = FALSE, !.usable = FALSE]
  /\ UNCHANGED << usageLogsInitialized, clientCache, ipLocationCache,
                  GoogleGenAI, idle >>
  /\ JournalFrame

\* createClient(apiKey): NO_API_KEY is thrown for a missing key before
\* anything is touched
CreateClient(apiKey) ==
  /\ lastJ.n < MaxJournalOps
  /\ IF apiKey = ""
     THEN /\ lastJ' = [lastJ EXCEPT !.n = lastJ.n + 1, !.op = "client",
                                    !.count = 0, !.reloaded = FALSE,
                                    !.usable = FALSE]
          /\ UNCHANGED << clientCache, GoogleGenAI, idle >>
     ELSE /\ idle' = 0
          /\ GoogleGenAI' = (GoogleGenAI \/ apiKey \notin clientCache)
          /\ clientCache' = IF apiKey \in ENV_API_KEYS
                            THEN clientCache \cup {apiKey} ELSE clientCache
          /\ lastJ' = [lastJ EXCEPT !.n = lastJ.n + 1, !.op = "client",
                                    !.count = 0, !.reloaded = FALSE,
                                    !.usable = TRUE,
                                    !.rebuilt =
                                       IF ~GoogleGenAI /\ apiKey \notin clientCache
                                       THEN lastJ.rebuilt \cup {"sdk"}
                                       ELSE lastJ.rebuilt]
  /\ UNCHANGED << usageLogs, usageLogsInitialized, userStats, storedLogs,
                  ipLocationCache >>
  /\ JournalFrame

\* GET /api/admin/usage-logs: initUsageLogs(true) reloads the mirror
AdminListLogs ==
  /\ usageLogs' = storedLogs
  /\ userStats' = Len(storedLogs)
  /\ usageLogsInitialized' = TRUE
  /\ UNCHANGED << storedLogs, clientCache, ipLocationCache, GoogleGenAI, idle,
                  lastJ >>
  /\ JournalFrame

\* the mirror's frame: everything but the journal and the calls in progress
MirrorFrame ==
  UNCHANGED << gateVars, quotaUsers, quotaConfig, clock, handlerVars, seqVars,
               codeVars, storeVars, calVars, adminVars >>

\* what a tick does to the logUserUsage calls in progress: nothing; ticked
\* records that the mirror was dropped while the call awaited the location
Ticked(dropped) ==
  [a \in DOMAIN appends |->
     IF dropped /\ appends[a].pc = "geo"
     THEN [appends[a] EXCEPT !.ticked = TRUE] ELSE appends[a]]

\* a reclaimer that saves the journal after dropping the mirror
ReclaimerTick_saving ==
  /\ LET c == cleanIdleResources(idle, clientCache, ipLocationCache, GoogleGenAI,
                                 usageLogs, userStats, usageLogsInitialized)
     IN /\ clientCache' = c.clients
        /\ ipLocationCache' = c.locations
        /\ GoogleGenAI' = c.sdk
        /\ usageLogs' = c.logs
        /\ userStats' = c.stats
        /\ usageLogsInitialized' = c.initialized
        /\ storedLogs' = c.logs
        /\ initUsageLogsPromise' = IF c.dropped THEN 0 ELSE initUsageLogsPromise
        /\ appends' = Ticked(c.dropped)
        /\ lastJ' = IF c.deep THEN [lastJ EXCEPT !.rebuilt = {}] ELSE lastJ
  /\ UNCHANGED << idle, loads >>
  /\ MirrorFrame

\* the setInterval callback: cleanIdleResources()
ReclaimerTick ==
  /\ LET c == cleanIdleResources(idle, clientCache, ipLocationCache, GoogleGenAI,
                                 usageLogs, userStats, usageLogsInitialized)
     IN /\ clientCache' = c.clients
        /\ ipLocationCache' = c.locations
        /\ GoogleGenAI' = c.sdk
        /\ usageLogs' = c.logs
        /\ userStats' = c.stats
        /\ usageLogsInitialized' = c.initialized
        /\ initUsageLogsPromise' = IF c.dropped THEN 0 ELSE initUsageLogsPromise
        /\ appends' = Ticked(c.dropped)
        /\ lastJ' = IF c.deep THEN [lastJ EXCEPT !.rebuilt = {}] ELSE lastJ
  /\ UNCHANGED << storedLogs, idle, loads >>
  /\ MirrorFrame

\* a minute passes without a createClient call
MinutePasses ==
  /\ idle < MaxIdle
  /\ idle' = idle + 1
  /\ UNCHANGED << usageLogs, usageLogsInitialized, userStats, storedLogs,
                  clientCache, ipLocationCache, GoogleGenAI, lastJ >>
  /\ JournalFrame

NextJournal ==
  \/ \E ip \in Addresses, located \in BOOLEAN : LogUserUsage(ip, located)
  \/ PurgeUsageLogs
  \/ \E apiKey \in ApiKeys : CreateClient(apiKey)
  \/ AdminListLogs
  \/ ReclaimerTick
  \/ MinutePasses

SpecJournal == InitJournal /\ [][NextJournal]_vars

\* ------------------- SpecMirror: the journal mirror under concurrent calls
\* a logUserUsage call: the await point it is suspended at ("init" for
\* `await initUsageLogs()`, "geo" for `await getIpLocation(ip)`), the load
\* it awaits, the entry it pushed, and whether a deep tick dropped the
\* mirror while it awaited the location
NoAppend == [ pc |-> "idle", awaits |-> 0, entry |-> 0, ticked |-> FALSE ]

\* initUsageLogs(forceReload) up to its return: the mirror it leaves, the
\* promise it leaves in initUsageLogsPromise and returns (0 when it returns
\* at once), and whether it has called _doInitUsageLogs; `made` is the
\* number of loads made before
initUsageLogs(forceReload, initialized, promise, logs, stats, made) ==
  LET init == initialized /\ ~forceReload
      prom == IF forceReload THEN 0 ELSE promise
  IN [ logs        |-> IF forceReload THEN << >> ELSE logs,
       stats       |-> IF forceReload THEN 0 ELSE stats,
       initialized |-> init,
       promise     |-> IF init THEN prom
                       ELSE IF prom # 0 THEN prom ELSE made + 1,
       awaits      |-> IF init THEN 0
                       ELSE IF prom # 0 THEN prom ELSE made + 1,
       starts      |-> ~init /\ prom = 0 ]

\* the server after its start-up load, with a short or an almost full journal
InitMirror ==
  /\ HandlerInit(NumReqs)
  /\ quotaUsers = NoUsers
  /\ quotaConfig = StoredConfig
  /\ clock = 1
  /\ SeqInit
  /\ CodesIdle /\ StoreIdle /\ CalendarIdle /\ ConfigIdle
  /\ \E k \in {2, MAX_USAGE_LOGS - 1} :
        /\ storedLogs = Entries(k)
        /\ usageLogs = Entries(k)
        /\ userStats = k
        /\ lastJ = [NoJ EXCEPT !.entry = k]
  /\ usageLogsInitialized = TRUE
  /\ clientCache = {}
  /\ ipLocationCache = {}
  /\ GoogleGenAI = FALSE
  /\ idle = 0
  /\ initUsageLogsPromise = 0
  /\ loads = << >>
  /\ appends = [a \in 1..NumAppends |-> NoAppend]

\* the call of initUsageLogs(forceReload) by a handler: what it does to the
\* mirror, to the promise and to the loads
CallInitUsageLogs(forceReload) ==
  LET i == initUsageLogs(forceReload, usageLogsInitialized, initUsageLogsPromise,
                         usageLogs, userStats, Len(loads))
  IN /\ i.starts => Len(loads) < MaxLoads
     /\ usageLogs' = i.logs
     /\ userStats' = i.stats
     /\ usageLogsInitialized' = i.initialized
     /\ initUsageLogsPromise' = i.promise
     /\ loads' = IF i.starts THEN Append(loads, "running") ELSE loads

\* logUserUsage is called: with the mirror loaded it goes on to the
\* location lookup, otherwise it awaits initUsageLogs()
LogUserUsageCalled(a) ==
  /\ appends[a].pc = "idle"
  /\ \A b \in 1..(a - 1) : appends[b].pc # "idle"
  /\ IF usageLogsInitialized
     THEN /\ appends' = [appends EXCEPT ![a].pc = "geo"]
          /\ UNCHANGED << usageLogs, userStats, usageLogsInitialized,
                          initUsageLogsPromise, loads >>
     ELSE /\ CallInitUsageLogs(FALSE)
          /\ appends' = [appends EXCEPT ![a].pc = "init",
                                        ![a].awaits = initUsageLogsPromise']
  /\ UNCHANGED << storedLogs, clientCache, ipLocationCache, GoogleGenAI, idle,
                  lastJ >>
  /\ MirrorFrame

\* the load the call awaited has completed: it goes on to the location
\* lookup without looking at usageLogsInitialized again
LogUserUsageLoaded(a) ==
  /\ appends[a].pc = "init"
  /\ loads[appends[a].awaits] = "done"
  /\ appends' = [appends EXCEPT ![a].pc = "geo"]
  /\ UNCHANGED << journalVars, initUsageLogsPromise, loads >>
  /\ MirrorFrame

\* getIpLocation has returned: the count, the push with its cap, and
\* saveUsageLogs of the mirror as it is now
LogUserUsagePushed(a) ==
  /\ appends[a].pc = "geo"
  /\ LET entry == lastJ.entry + 1
     IN /\ usageLogs' = pushCapped(usageLogs, entry)
        /\ storedLogs' = pushCapped(usageLogs, entry)
        /\ userStats' = userStats + 1
        /\ appends' = [appends EXCEPT ![a].pc = "done", ![a].entry = entry]
        /\ lastJ' = [lastJ EXCEPT !.op = "append", !.entry = entry]
  /\ UNCHANGED << usageLogsInitialized, clientCache, ipLocationCache,
                  GoogleGenAI, idle, initUsageLogsPromise, loads >>
  /\ MirrorFrame

\* GET /api/admin/usage-logs is called: initUsageLogs(true) empties the
\* mirror, forgets the promise and starts a load, which the handler awaits;
\* its answer changes nothing
AdminListLogsCalled ==
  /\ CallInitUsageLogs(TRUE)
  /\ UNCHANGED << storedLogs, clientCache, ipLocationCache, GoogleGenAI, idle,
                  lastJ, appends >>
  /\ MirrorFrame

\* _doInitUsageLogs of load l completes: the mirror is what the store
\* returned, every loaded entry is counted, the promise is forgotten
DoInitUsageLogsDone(l) ==
  /\ loads[l] = "running"
  /\ usageLogs' = storedLogs
  /\ userStats' = userStats + Len(storedLogs)
  /\ usageLogsInitialized' = TRUE
  /\ initUsageLogsPromise' = 0
  /\ loads' = [loads EXCEPT ![l] = "done"]
  /\ UNCHANGED << storedLogs, clientCache, ipLocationCache, GoogleGenAI, idle,
                  lastJ, appends >>
  /\ MirrorFrame

NextMirror ==
  \/ \E a \in DOMAIN appends : LogUserUsageCalled(a)
  \/ \E a \in DOMAIN appends : LogUserUsageLoaded(a)
  \/ \E a \in DOMAIN appends : LogUserUsagePushed(a)
  \/ AdminListLogsCalled
  \/ \E l \in DOMAIN loads : DoInitUsageLogsDone(l)
  \/ ReclaimerTick
  \/ MinutePasses

SpecMirror == InitMirror /\ [][NextMirror]_vars

\* ------------------------------- SpecStore: calls of the persistence facade
\* the remote backend and the local store are in any of their states; each
\* step is one call of a facade function against them
FacadeOps ==
  {"getQuotaUsers", "saveQuotaUsers", "getQuotaCodes", "saveQuotaCodes",
   "getQuotaConfig", "saveQuotaConfig", "initUsageLogs", "saveUsageLogs"}

FacadeCall(op, remote, local) ==
  CASE op = "getQuotaUsers"   -> getQuotaUsers(remote, local)
    [] op = "saveQuotaUsers"  -> saveQuotaUsers(remote, local)
    [] op = "getQuotaCodes"   -> getQuotaCodes(remote, local)
    [] op = "saveQuotaCodes"  -> saveQuotaCodes(remote, local)
    [] op = "getQuotaConfig"  -> getQuotaConfig(remote, local)
    [] op = "saveQuotaConfig" -> saveQuotaConfig(remote, local)
    [] op = "initUsageLogs"   -> doInitUsageLogs(remote, local)
    [] OTHER                  -> saveUsageLogs(remote, local)

InitStore ==
  /\ HandlerInit(NumReqs)
  /\ quotaUsers = NoUsers
  /\ quotaConfig = StoredConfig
  /\ clock = 1
  /\ SeqInit
  /\ CodesIdle /\ JournalIdle /\ CalendarIdle /\ MirrorIdle /\ ConfigIdle
  /\ \E remote \in Remotes, local \in Locals :
        facade = [NoFacade EXCEPT !.remote = remote, !.local = local]

Call(op) ==
  /\ LET out == FacadeCall(op, facade.remote, facade.local)
     IN facade' = [facade EXCEPT !.op = op, !.threw = out.threw,
                                 !.done = out.done, !.value = out.value]
  /\ UNCHANGED << gateVars, quotaUsers, quotaConfig, clock, handlerVars, seqVars,
                  codeVars, journalVars, calVars,
                  mirrorVars, adminVars >>

NextStore == \E op \in FacadeOps : Call(op)

SpecStore == InitStore /\ [][NextStore]_vars

\* --------------------------- SpecOutage: the ledger over a failing store
\* `await saveQuotaUsers(users); return { allowed: true, ... }`: what the
\* caller of checkAndConsumeQuota gets when the save ended as `save`: an
\* exception of the save would propagate, anything else is followed by the
\* return of the decision already taken
QuotaError == QuotaResult(FALSE, "error", 0, FALSE, FALSE)

AfterSave_failing(result, save) ==
  IF save.threw \/ save.value = "lost" THEN QuotaError ELSE result

AfterSave(result, save) == IF save.threw THEN QuotaError ELSE result

\* the ways saveQuotaUsers ends over every state of the two backends
SaveOutcomes ==
  { saveQuotaUsers(remote, local) : remote \in Remotes, local \in Locals }

\* one whole call of checkAndConsumeQuota(userId, nickname) whose reads are
\* served and whose write meets the two backends in any of their states
CheckAndConsumeOver(userId, nickname) ==
  /\ CallsThisWeek < MaxCalls
  /\ \E outcome \in SaveOutcomes :
       LET out == checkAndConsumeQuota(quotaUsers, quotaConfig, thisWeek,
                                       userId, nickname)
           save == IF out.saved THEN outcome ELSE Fall
           stored == out.saved /\ save.value \in {"remote", "local"}
       IN /\ quotaUsers' = IF stored THEN out.users ELSE quotaUsers
          /\ facade' = [NoFacade EXCEPT !.op = "saveQuotaUsers",
                                        !.threw = save.threw,
                                        !.done = save.done,
                                        !.value = save.value]
          /\ last' = [ userId |-> userId, saved |-> out.saved,
                       week |-> thisWeek,
                       result |-> IF out.saved THEN AfterSave(out.result, save)
                                               ELSE out.result ]
  /\ weekLog' =
       LET log == IF weekLog[userId].week = thisWeek
                  THEN weekLog[userId]
                  ELSE FreshLog(quotaUsers, thisWeek, userId)
       IN [weekLog EXCEPT ![userId] = [log EXCEPT !.n = log.n + 1]]
  /\ UNCHANGED << gateVars, quotaConfig, clock, handlerVars, codeVars,
                  journalVars, calVars,
                  mirrorVars, adminVars >>

NextOutage ==
  \E userId \in Subjects, nickname \in Nicknames :
     CheckAndConsumeOver(userId, nickname)

SpecOutage == InitQuota /\ [][NextOutage]_vars

\* ------------------------------ SpecConfig: updates of the QuotaConfig
\* A limit in the body of PUT /api/admin/quota/config: an integer n (a
\* number or a string of digits), a value with integer part n followed by
\* a fraction or other characters (2.5, "2abc"), or a value parseInt cannot
\* read (missing, "abc", null). MAX_WEEKLY_LIMIT is the bound of the check.
MAX_WEEKLY_LIMIT == 100
LimitInputs ==
  [ kind : {"int", "more"}, n : {0 - 1, 0, 1, MAX_WEEKLY_LIMIT, MAX_WEEKLY_LIMIT + 1} ]
    \cup { [kind |-> "nan", n |-> 0] }

\* (a parser that would reject whatever follows the digits)
parseInt_strict(x) == [ nan |-> x.kind # "int", value |-> x.n ]

\* parseInt(x): the leading integer, or NaN
parseInt(x) == [ nan |-> x.kind = "nan", value |-> x.n ]

\* isNaN(v) || v < 0 || v > 100
OutOfBounds(v) == v.nan \/ v.value < 0 \/ v.value > MAX_WEEKLY_LIMIT

DEFAULT_QUOTA_CONFIG == [ normalWeeklyLimit |-> 5, proWeeklyLimit |-> 10 ]

\* a deployment in which no config has been stored yet
InitConfig ==
  /\ HandlerInit(NumReqs)
  /\ quotaUsers = NoUsers
  /\ quotaConfig = DEFAULT_QUOTA_CONFIG
  /\ clock = 1
  /\ SeqInit
  /\ CodesIdle /\ JournalIdle /\ StoreIdle /\ CalendarIdle /\ MirrorIdle
  /\ lastCfg = NoCfg

\* PUT /api/admin/quota/config with body { normalWeeklyLimit, proWeeklyLimit }
\* over a store that serves the save
PutQuotaConfig(normalWeeklyLimit, proWeeklyLimit) ==
  /\ LET newNormalLimit == parseInt(normalWeeklyLimit)
         newProLimit == parseInt(proWeeklyLimit)
     IN IF OutOfBounds(newNormalLimit) \/ OutOfBounds(newProLimit)
        THEN /\ lastCfg' = [ normal |-> normalWeeklyLimit,
                             pro |-> proWeeklyLimit, status |-> 400 ]
             /\ UNCHANGED quotaConfig
        ELSE /\ quotaConfig' = [ normalWeeklyLimit |-> newNormalLimit.value,
                                 proWeeklyLimit |-> newProLimit.value ]
             /\ lastCfg' = [ normal |-> normalWeeklyLimit,
                             pro |-> proWeeklyLimit, status |-> 200 ]
  /\ UNCHANGED << gateVars, quotaUsers, clock, handlerVars, seqVars, codeVars,
                  journalVars, storeVars, calVars, mirrorVars >>

NextConfig ==
  \E normalWeeklyLimit \in LimitInputs, proWeeklyLimit \in LimitInputs :
     PutQuotaConfig(normalWeeklyLimit, proWeeklyLimit)

SpecConfig == InitConfig /\ [][NextConfig]_vars

\* ------------------ SpecReadOutage: the ledger over a store that fails reads
\* the ways getQuotaUsers ends in a deployment that keeps the ledger in the
\* remote store and has no data directory, whatever the request to the
\* store does
LedgerReads ==
  { getQuotaUsers(remote, local) :
      remote \in {r \in Remotes : r.configured /\ r.stored = "blob"},
      local \in {l \in Locals : ~l.dir} }

\* the blob the caller of getQuotaUsers holds: the stored ledger, or {}
UsersRead(read, users) == IF read.value = "remote-blob" THEN users ELSE NoUsers

\* one whole call of checkAndConsumeQuota(userId, nickname) whose
\* getQuotaUsers meets the store in any of its states and whose
\* saveQuotaUsers is served
CheckAndConsumeRead(userId, nickname) ==
  /\ CallsThisWeek < MaxCalls
  /\ \E read \in LedgerReads :
       LET out == checkAndConsumeQuota(UsersRead(read, quotaUsers), quotaConfig,
                                       thisWeek, userId, nickname)
       IN /\ quotaUsers' = IF out.saved THEN out.users ELSE quotaUsers
          /\ facade' = [NoFacade EXCEPT !.op = "getQuotaUsers",
                                        !.threw = read.threw,
                                        !.done = read.done,
                                        !.value = read.value]
          /\ last' = [ userId |-> userId, saved |-> out.saved,
                       week |-> thisWeek, result |-> out.result ]
  /\ weekLog' =
       LET log == IF weekLog[userId].week = thisWeek
                  THEN weekLog[userId]
                  ELSE FreshLog(quotaUsers, thisWeek, userId)
       IN [weekLog EXCEPT ![userId] = [log EXCEPT !.n = log.n + 1]]
  /\ UNCHANGED << gateVars, quotaConfig, clock, handlerVars, codeVars,
                  journalVars, calVars, mirrorVars, adminVars >>

NextReadOutage ==
  \E userId \in Subjects, nickname \in Nicknames :
     CheckAndConsumeRead(userId, nickname)

SpecReadOutage == InitQuota /\ [][NextReadOutage]_vars

\* ------------------------------------- SpecCalendar: the week label in time
\* The clock runs through the years from 2000 on, which hold every
\* combination of the weekday of 1 January and of leap and common years.
Years == 2000..(1999 + NumYears)

\* the instant k half days after instant t, k at most a common year
Later(t, k) ==
  LET h == 2 * t.day + t.half + k
      y == IF h >= 2 * DaysIn(t.year) THEN t.year + 1 ELSE t.year
      r == IF h >= 2 * DaysIn(t.year) THEN h - 2 * DaysIn(t.year) ELSE h
  IN [year |-> y, day |-> r \div 2, half |-> r % 2]

\* the waits between two calls: half a day, a day, a week, a common year
Waits == {1, 2, 14, 730}

InitCalendar ==
  /\ HandlerInit(NumReqs)
  /\ quotaUsers = NoUsers
  /\ quotaConfig = StoredConfig
  /\ clock = 1
  /\ SeqInit
  /\ CodesIdle /\ JournalIdle /\ StoreIdle /\ MirrorIdle /\ ConfigIdle
  /\ now = [year |-> 2000, day |-> 0, half |-> 0]
  /\ weekId = [at |-> NoInstant, label |-> <<0, 0>>]

CalendarFrame ==
  UNCHANGED << gateVars, quotaUsers, quotaConfig, clock, handlerVars, seqVars,
               codeVars, journalVars, storeVars, mirrorVars, adminVars >>

\* a call of getCurrentWeekId() at the current instant
GetCurrentWeekId ==
  /\ weekId.at # now
  /\ weekId' = [at |-> now, label |-> getCurrentWeekId(now)]
  /\ UNCHANGED now
  /\ CalendarFrame

\* the time between two calls
TimePasses ==
  /\ weekId.at = now
  /\ \E k \in Waits :
        /\ Later(now, k).year \in Years
        /\ now' = Later(now, k)
  /\ UNCHANGED weekId
  /\ CalendarFrame

NextCalendar ==
  \/ GetCurrentWeekId
  \/ TimePasses

SpecCalendar == InitCalendar /\ [][NextCalendar]_vars

\* -------------------------------------------------- claims on the gate
\* request r holds a slot: one was handed to it and it has not released it
Holding(r) == hist[r].granted > hist[r].released
HoldingNext(r) == hist'[r].granted > hist'[r].released
Holders == {r \in Reqs : Holding(r)}
InFlight == {r \in Reqs : pc[r] = "inference"}

\* C1: in every reachable state activeRequests is the number of requests
\* that hold a slot, and it lies between 0 and MAX_CONCURRENT_REQUESTS = 2.
C1_Capacity ==
  /\ activeRequests = Cardinality(Holders)
  /\ activeRequests >= 0
  /\ activeRequests <= MAX_CONCURRENT_REQUESTS

\* the gate is full and a further request has called acquireSlot
C1_Witness ==
  /\ activeRequests = MAX_CONCURRENT_REQUESTS
  /\ Len(requestQueue) >= 1

\* C2: an acquireSlot call proceeds at once when fewer than 2 requests hold
\* a slot and is queued behind the earlier waiters otherwise; a releaseSlot
\* call admits exactly one waiter, the one that called acquireSlot first,
\* and no waiter is admitted by any other step.
C2_AcquireStep ==
  \A r \in Reqs :
    (Free(r) /\ pc'[r] \in {"queued", "granted"})
    => IF Cardinality(Holders) < MAX_CONCURRENT_REQUESTS
       THEN pc'[r] = "granted" /\ requestQueue' = requestQueue
       ELSE pc'[r] = "queued" /\ requestQueue' = Append(requestQueue, r)

C2_Admitted == {x \in Reqs : pc[x] = "queued" /\ pc'[x] # "queued"}

C2_ReleaseStep ==
  /\ \A r \in Reqs :
       (Holding(r) /\ ~HoldingNext(r))
       => IF arrivalOrder = << >>
          THEN C2_Admitted = {}
          ELSE /\ C2_Admitted = {Head(arrivalOrder)}
               /\ pc'[Head(arrivalOrder)] = "granted"
               /\ HoldingNext(Head(arrivalOrder))
               /\ requestQueue' = Tail(requestQueue)
  /\ C2_Admitted # {} => \E r \in Reqs : Holding(r) /\ ~HoldingNext(r)

C2_Fifo == [][C2_AcquireStep /\ C2_ReleaseStep]_vars

\* a waiter has been admitted while at least two later callers still wait
C2_Witness ==
  /\ Len(requestQueue) >= 2
  /\ \E x \in Reqs : pc[x] = "granted" /\ hist[x].waited

\* C3: a request is handed at most one slot, calls releaseSlot only when it
\* leaves its handler, and has called it exactly once when it has finished,
\* on whatever exit path: a finished request holds no slot.
C3_GuaranteedRelease ==
  \A r \in Reqs :
    /\ hist[r].granted <= 1
    /\ hist[r].released <= hist[r].granted
    /\ pc[r] # "done" => hist[r].released = 0
    /\ pc[r] = "done" => hist[r].released = hist[r].granted

\* a request that held a slot was denied by quota and has released the slot
C3_Witness ==
  \E r \in Reqs :
    /\ pc[r] = "done"
    /\ quotaCall[r].quota = "denied"
    /\ hist[r].granted = 1
    /\ hist[r].released = 1

\* C4 (as claimed): a metered request has been allowed by checkAndConsume
\* before it calls acquireSlot, so a request that waits in the gate queue or
\* has been handed a slot was allowed, and a denied one never held a slot.
C4_QuotaBeforeAcquire ==
  \A r \in Reqs :
    /\ (ep[r] = "image-base64" /\ (pc[r] = "queued" \/ hist[r].granted >= 1))
         => quotaCall[r].quota = "allowed"
    /\ quotaCall[r].quota = "denied" => hist[r].granted = 0

\* C5 (as claimed): every external inference call in flight belongs to a
\* request that holds a slot, so at most 2 are in flight.
C5_InferenceUnderSlot ==
  /\ \A r \in InFlight : Holding(r)
  /\ Cardinality(InFlight) <= MAX_CONCURRENT_REQUESTS

\* ------------------------------------------------ claims on the ledger
IsUnlimited(u) == u \in DOMAIN quotaUsers /\ quotaUsers[u].isUnlimited
IsPro(u) == u \in DOMAIN quotaUsers /\ quotaUsers[u].isPro
LimitOf(u) == IF IsPro(u) THEN quotaConfig.proWeeklyLimit
                          ELSE quotaConfig.normalWeeklyLimit
Max0(i) == IF i > 0 THEN i ELSE 0
\* the step is a call of checkAndConsumeQuota by subject u: exactly those
\* steps change the week log of u
Called(u) == weekLog'[u] # weekLog[u]

\* C6: a normal-tier subject that starts a week with no weekly usage and no
\* extra quota is allowed by its n-th sequential call of that week exactly
\* when n <= normalWeeklyLimit, and an allowed call returns
\* remaining = limit - weeklyUsage, weeklyUsage being n after the increment.
C6_WeeklyLimit ==
  \A u \in Subjects :
    ( /\ last.userId = u
      /\ ~IsUnlimited(u) /\ ~IsPro(u)
      /\ weekLog[u].base = 0 /\ weekLog[u].extra = 0 )
    => LET n == weekLog[u].n
           limit == quotaConfig.normalWeeklyLimit
       IN /\ last.result.allowed <=> n <= limit
          /\ last.result.allowed =>
               /\ last.result.reason = "weekly_free"
               /\ last.result.remaining = limit - n
               /\ quotaUsers[u].weeklyUsage = n

\* the (limit+1)-th call of a week was denied after limit >= 1 allowed ones
C6_Witness ==
  \E u \in Subjects :
    /\ last.userId = u /\ ~IsUnlimited(u) /\ ~IsPro(u)
    /\ weekLog[u].base = 0 /\ weekLog[u].extra = 0
    /\ quotaConfig.normalWeeklyLimit >= 1
    /\ weekLog[u].n = quotaConfig.normalWeeklyLimit + 1
    /\ ~last.result.allowed
    /\ quotaUsers[u].weeklyUsage = quotaConfig.normalWeeklyLimit

\* C7: once the weekly allotment of a non-unlimited subject is exhausted, a
\* subject that held extraQuota = k is allowed by exactly the next k calls of
\* that week, each returning the decremented extraQuota as remaining, and is
\* denied by the (k+1)-th.
C7_ExtraQuota ==
  \A u \in Subjects :
    (last.userId = u /\ ~IsUnlimited(u))
    => LET k == weekLog[u].extra
           over == weekLog[u].n - Max0(LimitOf(u) - weekLog[u].base)
       IN over >= 1 =>
            /\ last.result.allowed <=> over <= k
            /\ last.result.allowed =>
                 /\ last.result.reason = "extra_quota"
                 /\ last.result.remaining = k - over
                 /\ quotaUsers[u].extraQuota = k - over

\* the (k+1)-th call after exhaustion was denied, k >= 1
C7_Witness ==
  \E u \in Subjects :
    /\ last.userId = u /\ ~IsUnlimited(u)
    /\ weekLog[u].extra >= 1
    /\ weekLog[u].n - Max0(LimitOf(u) - weekLog[u].base) = weekLog[u].extra + 1
    /\ ~last.result.allowed
    /\ quotaUsers[u].extraQuota = 0

\* C8: every call by an unlimited-tier subject is allowed, adds exactly 1 to
\* that subject's totalUsage and leaves its weeklyUsage, currentWeek and
\* extraQuota as stored.
C8_Unlimited ==
  [][ \A u \in Subjects :
        (Called(u) /\ IsUnlimited(u))
        => /\ last'.result.allowed
           /\ last'.result.reason = "unlimited"
           /\ last'.result.remaining = UNLIMITED_REMAINING
           /\ quotaUsers'[u].totalUsage = quotaUsers[u].totalUsage + 1
           /\ quotaUsers'[u].weeklyUsage = quotaUsers[u].weeklyUsage
           /\ quotaUsers'[u].currentWeek = quotaUsers[u].currentWeek
           /\ quotaUsers'[u].extraQuota = quotaUsers[u].extraQuota
           /\ quotaUsers'[u].isUnlimited ]_vars

\* an unlimited subject with a stale week label and weekly usage above the
\* limit has been allowed more often than limit + extraQuota
C8_Witness ==
  \E u \in Subjects :
    /\ last.userId = u /\ IsUnlimited(u)
    /\ last.result.reason = "unlimited"
    /\ quotaUsers[u].currentWeek # last.week
    /\ quotaUsers[u].weeklyUsage >= LimitOf(u)
    /\ quotaUsers[u].totalUsage > LimitOf(u) + quotaUsers[u].extraQuota

\* C9: a stored week label that differs from the current one makes the weekly
\* usage count as 0: both listings report 0 for such a row, and a call by such
\* a non-unlimited subject decides against usage 0 and, when it consumes,
\* stores the current label.
C9_Listing ==
  \A u \in DOMAIN quotaUsers :
    quotaUsers[u].currentWeek # thisWeek
    => /\ AdminListedWeeklyUsage(quotaUsers[u], thisWeek) = 0
       /\ UserQuotaWeeklyUsage(quotaUsers, thisWeek, u) = 0

C9_Call ==
  \A u \in Subjects :
    ( /\ Called(u)
      /\ u \in DOMAIN quotaUsers
      /\ ~quotaUsers[u].isUnlimited
      /\ quotaUsers[u].currentWeek # thisWeek )
    => /\ LimitOf(u) > 0 =>
            /\ last'.result.reason = "weekly_free"
            /\ last'.result.remaining = LimitOf(u) - 1
            /\ quotaUsers'[u].weeklyUsage = 1
            /\ quotaUsers'[u].currentWeek = thisWeek
       /\ (LimitOf(u) = 0 /\ quotaUsers[u].extraQuota > 0) =>
            /\ last'.result.reason = "extra_quota"
            /\ quotaUsers'[u].weeklyUsage = 0
            /\ quotaUsers'[u].currentWeek = thisWeek
       /\ (LimitOf(u) = 0 /\ quotaUsers[u].extraQuota = 0) =>
            ~last'.result.allowed

C9_LazyRollover == [](C9_Listing) /\ [][C9_Call]_vars

\* a subject that had consumed in an earlier week has consumed its first
\* unit of the new week
C9_Witness ==
  \E u \in Subjects :
    /\ last.userId = u /\ ~IsUnlimited(u)
    /\ last.result.reason = "weekly_free"
    /\ last.week = getCurrentWeekId(Dates[Len(Dates)])
    /\ quotaUsers[u].currentWeek = last.week
    /\ quotaUsers[u].weeklyUsage = 1
    /\ quotaUsers[u].totalUsage >= 2

\* C10: a denying call happens with weekly usage at or above the limit and
\* no extra quota, returns quota_exceeded with remaining 0, and makes no
\* ledger write: the persisted ledger is the same before and after.
C10_DenialNoWrite ==
  [][ \A u \in Subjects :
        (Called(u) /\ ~last'.result.allowed)
        => /\ EffectiveUsage(quotaUsers, thisWeek, u) >= LimitOf(u)
           /\ StoredExtra(quotaUsers, u) = 0
           /\ last'.result.reason = "quota_exceeded"
           /\ last'.result.remaining = 0
           /\ ~last'.saved
           /\ quotaUsers' = quotaUsers ]_vars

\* a call was denied to a subject whose stored row is stale or missing, and
\* the ledger still holds the old row or none
C10_Witness ==
  \E u \in Subjects :
    /\ last.userId = u
    /\ ~last.result.allowed
    /\ \/ u \notin DOMAIN quotaUsers
       \/ quotaUsers[u].currentWeek # last.week

\* ---------------------------------------------- claims on the registry
\* the step is a registry operation of SpecCodes: each one counts in lastOp
RegistryOp(op) == lastOp'.n # lastOp.n /\ lastOp'.op = op

\* C11: a sequential redeem by subject u of a code that the registry holds
\* as a grant of amount n >= 1 succeeds, adds exactly n to u's extraQuota and
\* removes the code; a redeem of the same code that directly follows a
\* successful grant redeem is answered not found and changes neither blob.
C11_FirstRedeem ==
  \A u \in Subjects :
    ( /\ RegistryOp("redeem")
      /\ lastOp'.userId = u
      /\ lastOp'.code \in DOMAIN quotaCodes
      /\ quotaCodes[lastOp'.code].type = "quota"
      /\ quotaCodes[lastOp'.code].quota >= 1 )
    => /\ lastOp'.status = "success"
       /\ lastOp'.matched = lastOp'.code
       /\ u \in DOMAIN quotaUsers'
       /\ quotaUsers'[u].extraQuota =
            StoredExtra(quotaUsers, u) + quotaCodes[lastOp'.code].quota
       /\ lastOp'.code \notin DOMAIN quotaCodes'
       /\ \A c \in DOMAIN quotaCodes :
            c # lastOp'.code => c \in DOMAIN quotaCodes' /\ quotaCodes'[c] = quotaCodes[c]

C11_SecondRedeem ==
  ( /\ RegistryOp("redeem")
    /\ lastOp.op = "redeem" /\ lastOp.status = "success" /\ lastOp.kind = "grant"
    /\ lastOp'.code = lastOp.code
    /\ lastOp'.userId # "" )
  => /\ lastOp'.status = "not_found"
     /\ quotaUsers' = quotaUsers
     /\ quotaCodes' = quotaCodes

C12_SingleUse ==
  \A c \in DOMAIN StoredCodes :
    Cardinality({p \in DOMAIN rd :
                   rd[p].status = "success" /\ rd[p].matched = c}) <= 1

\* C13: a redeem whose code, as typed, upper-cased and lower-cased, is no key
\* of the registry is answered not found and leaves both the ledger blob and
\* the registry blob as they were; no row is created for an unseen subject.
C13_FailedRedeem ==
  [][ ( /\ RegistryOp("redeem")
        /\ lastOp'.code # "" /\ lastOp'.userId # ""
        /\ trim(lastOp'.code) \notin DOMAIN quotaCodes
        /\ toUpperCase(trim(lastOp'.code)) \notin DOMAIN quotaCodes
        /\ toLowerCase(trim(lastOp'.code)) \notin DOMAIN quotaCodes )
      => /\ lastOp'.status = "not_found"
         /\ quotaUsers' = quotaUsers
         /\ quotaCodes' = quotaCodes ]_vars

\* a subject without a row was answered not found for a code that had been
\* in the registry, while the registry holds another code
C13_Witness ==
  /\ lastOp.n = 3 /\ lastOp.op = "redeem" /\ lastOp.status = "not_found"
  /\ lastOp.code = "PRO-A1"
  /\ lastOp.userId \notin DOMAIN quotaUsers
  /\ DOMAIN quotaCodes = {"PRO-B2"}

\* C14 (as claimed): a checkAndConsumeQuota call entered by a subject after
\* its redeem of an unlimited code has succeeded reads a ledger on which the
\* call is allowed.
C14_UnlimitedUpgrade ==
  [][ \A r \in Reqs :
        ( /\ pc[r] = "granted" /\ pc'[r] = "q_config"
          /\ quotaCall'[r].userId \in upgraded )
        => checkAndConsumeQuota(quotaCall'[r].users, quotaConfig, thisWeek,
                                quotaCall'[r].userId,
                                quotaCall'[r].nickname).result.allowed ]_vars

\* C15 (as claimed): after a successful redeem of a pro code by subject u,
\* the next checkAndConsumeQuota(u) reports tier pro and decides against
\* proWeeklyLimit, whatever the tier of u was.
C15_ProUpgrade ==
  \A u \in Subjects :
    ( /\ lastOp.op = "redeem" /\ lastOp.status = "success"
      /\ lastOp.kind = "pro" /\ lastOp.userId = u )
    => LET out == checkAndConsumeQuota(quotaUsers, quotaConfig, thisWeek, u, "")
       IN /\ out.result.isPro
          /\ out.result.reason # "unlimited"
          /\ out.result.allowed <=>
               \/ EffectiveUsage(quotaUsers, thisWeek, u) < quotaConfig.proWeeklyLimit
               \/ StoredExtra(quotaUsers, u) > 0

\* C16 (as claimed): a generate call for count >= 1 codes returns count
\* pairwise distinct codes, none of them in the registry before; afterwards
\* the registry holds exactly count more codes, each returned code with the
\* requested kind, and every earlier code with its earlier row.
C16_Generate ==
  [][ (RegistryOp("generate") /\ lastOp'.count >= 1)
      => LET new == lastOp'.newCodes
         IN /\ Len(new) = lastOp'.count
            /\ \A i, j \in 1..Len(new) : i # j => new[i] # new[j]
            /\ \A i \in 1..Len(new) :
                 /\ new[i] \notin DOMAIN quotaCodes
                 /\ new[i] \in DOMAIN quotaCodes'
                 /\ quotaCodes'[new[i]].type = lastOp'.kind
            /\ Cardinality(DOMAIN quotaCodes') =
                 Cardinality(DOMAIN quotaCodes) + lastOp'.count
            /\ \A c \in DOMAIN quotaCodes :
                 c \in DOMAIN quotaCodes' /\ quotaCodes'[c] = quotaCodes[c] ]_vars

\* ------------------------------------------------ claims on the journal
\* the step is a journal operation of SpecJournal: each one counts in lastJ
JournalOp(op) == lastJ'.n # lastJ.n /\ lastJ'.op = op

\* C17: the in-memory journal never holds more than MAX_USAGE_LOGS = 500
\* entries and holds them in append order; an append to a loaded journal adds
\* the new entry at the end, and when the journal already held 500 entries it
\* removes exactly the oldest one and keeps all others.
C17_Capped ==
  /\ Len(usageLogs) <= MAX_USAGE_LOGS
  /\ \A i \in 1..(Len(usageLogs) - 1) : usageLogs[i] < usageLogs[i + 1]

C17_AppendStep ==
  (JournalOp("append") /\ usageLogsInitialized)
  => /\ Len(usageLogs') >= 1
     /\ usageLogs'[Len(usageLogs')] = lastJ'.entry
     /\ \A i \in 1..Len(usageLogs) : usageLogs[i] # lastJ'.entry
     /\ IF Len(usageLogs) = MAX_USAGE_LOGS
        THEN usageLogs' = Append(Tail(usageLogs), lastJ'.entry)
        ELSE usageLogs' = Append(usageLogs, lastJ'.entry)

C17_JournalCap == [](C17_Capped) /\ [][C17_AppendStep]_vars

\* entry 501 has been appended to a full journal: entry 1 is gone, entries
\* 2..500 are kept
C17_Witness ==
  /\ lastJ.op = "append"
  /\ Len(usageLogs) = MAX_USAGE_LOGS
  /\ usageLogs[1] = 2
  /\ usageLogs[MAX_USAGE_LOGS] = MAX_USAGE_LOGS + 1

\* C18 (as claimed): purge returns the number of entries the journal held
\* immediately before the call and leaves the mirror and the persisted blob
\* empty, whether the mirror was loaded or had been dropped by the reclaimer.
C18_Purge ==
  [][ JournalOp("purge")
      => /\ lastJ'.count = Len(storedLogs)
         /\ usageLogs' = << >>
         /\ storedLogs' = << >> ]_vars

\* C19: an append that finds the mirror dropped by a deep reclamation loads
\* it from the store first, so the persisted journal afterwards is the
\* previously persisted entries, without the oldest when they were 500,
\* followed by the new entry, and the mirror is the same; a createClient call
\* with a key, made when the client cache is empty and the SDK unloaded,
\* loads the SDK and returns a client.
C19_AppendStep ==
  (JournalOp("append") /\ ~usageLogsInitialized)
  => /\ lastJ'.reloaded
     /\ usageLogsInitialized'
     /\ storedLogs' = IF Len(storedLogs) >= MAX_USAGE_LOGS
                      THEN Append(Tail(storedLogs), lastJ'.entry)
                      ELSE Append(storedLogs, lastJ'.entry)
     /\ usageLogs' = storedLogs'

C19_ClientStep ==
  \A apiKey \in ApiKeys \ {""} :
    (CreateClient(apiKey) /\ clientCache = {} /\ ~GoogleGenAI)
    => /\ GoogleGenAI'
       /\ lastJ'.usable
       /\ (apiKey \in ENV_API_KEYS => apiKey \in clientCache')

C19_Rebuild == [][C19_AppendStep /\ C19_ClientStep]_vars

\* after a deep reclamation of a journal of 500 entries, an append has
\* reloaded the mirror and a client creation has reloaded the SDK
C19_Witness ==
  /\ lastJ.rebuilt = {"journal", "sdk"}
  /\ Len(storedLogs) = MAX_USAGE_LOGS
  /\ storedLogs[1] = 2
  /\ usageLogs = storedLogs
  /\ GoogleGenAI

\* --------------------------------------- claims on the persistence facade
\* C20: whatever the remote backend does (unconfigured, rejected fetch,
\* non-OK status, malformed body or stored string) and whatever the local
\* store holds (no directory, no file, unparsable file, failing write), no
\* facade call throws: a get returns a blob, {} or the default config, and a
\* set returns after writing remotely, locally or nowhere.
C20_NeverThrows ==
  facade.op # "none"
  => /\ ~facade.threw
     /\ facade.done
     /\ facade.op \in {"getQuotaUsers", "getQuotaCodes", "initUsageLogs"}
          => facade.value \in {"remote-blob", "local-blob", "empty"}
     /\ facade.op = "getQuotaConfig"
          => facade.value \in {"remote-blob", "local-blob", "default"}
     /\ facade.op \in {"saveQuotaUsers", "saveQuotaCodes", "saveQuotaConfig",
                       "saveUsageLogs"}
          => facade.value \in {"remote", "local", "lost"}

\* a get met a remote string that does not parse and a local file that does
\* not parse either, and returned {}
C20_Witness ==
  /\ facade.op = "getQuotaUsers"
  /\ facade.remote.configured /\ facade.remote.outcome = "ok"
  /\ facade.remote.stored = "unparsable"
  /\ facade.local.dir /\ facade.local.file = "unparsable"
  /\ facade.value = "empty"

\* ------------------------------------------------------------------ C21
\* the order of two labels <<year, week>>
LabelLess(a, b) == a[1] < b[1] \/ (a[1] = b[1] /\ a[2] < b[2])

\* a call of getCurrentWeekId() that follows an earlier call
C21_LaterCall == weekId'.at # weekId.at /\ weekId.at # NoInstant

\* C21: the label is the pair of the year and a week-of-year number of the
\* instant of the call; the label of a later call is never less than the
\* label of an earlier call, and when the later call is in a later year its
\* label is strictly greater, so the labels of the last week of a year and of
\* the first week of the next year are never equal.
C21_WeekLabel ==
  [][ C21_LaterCall =>
        /\ weekId'.label[1] = weekId'.at.year
        /\ weekId'.label[2] \in 1..54
        /\ ~LabelLess(weekId'.label, weekId.label)
        /\ weekId'.at.year > weekId.at.year =>
              LabelLess(weekId.label, weekId'.label) ]_vars

\* the last call of a year was made in its week 53 or 54 and the next call is
\* made in week 1 of the next year
C21_Witness ==
  /\ weekId.at.year = now.year - 1
  /\ weekId.label[2] >= 53
  /\ weekId.at # now
  /\ getCurrentWeekId(now)[2] = 1

\* ------------------------------------------------------------------ C22
\* a step in which some request calls releaseSlot
C22_Released == \E r \in Reqs : hist'[r].released = hist[r].released + 1

C22_NoIdleSlot ==
  Len(requestQueue) > 0 => activeRequests = MAX_CONCURRENT_REQUESTS

C22_ReleaseStep ==
  (C22_Released /\ Len(requestQueue) > 0)
  => /\ activeRequests' = activeRequests
     /\ requestQueue' = Tail(requestQueue)

\* C22: whenever a caller waits in requestQueue, activeRequests equals
\* MAX_CONCURRENT_REQUESTS; a releaseSlot call made while callers wait
\* leaves activeRequests unchanged and removes exactly the head of the
\* queue.
C22_NoSlotWasted == [](C22_NoIdleSlot) /\ [][C22_ReleaseStep]_vars

\* a slot has been released and handed to a waiter while others still wait
C22_Witness ==
  /\ Len(requestQueue) >= 1
  /\ activeRequests = MAX_CONCURRENT_REQUESTS
  /\ \E r \in Reqs : pc[r] = "done" /\ hist[r].released = 1
  /\ \E x \in Reqs : hist[x].waited /\ hist[x].granted = 1

\* ------------------------------------------------------------------ C23
\* a waiter leaves the queue only in a step in which a slot holder calls
\* releaseSlot, and it leaves it holding a slot
C23_LeaveStep ==
  \A r \in Reqs :
    (pc[r] = "queued" /\ pc'[r] # "queued")
    => /\ C22_Released
       /\ pc'[r] = "granted"
       /\ hist'[r].granted = hist[r].granted + 1
       /\ activeRequests' = MAX_CONCURRENT_REQUESTS

\* a queued request stays in requestQueue until it is handed a slot
C23_StillQueued ==
  \A r \in Reqs :
    pc[r] = "queued" => \E i \in 1..Len(requestQueue) : requestQueue[i] = r

\* C23: provided every slot holder eventually finishes its handler, every
\* queued acquireSlot caller is eventually handed a slot; a waiter leaves
\* the queue only by being handed a slot by releaseSlot, so a request whose
\* client gave up while it was queued is still handed a slot.
C23_WaiterServed ==
  /\ \A r \in 1..NumLive : (pc[r] = "queued") ~> (pc[r] = "granted")
  /\ [](C23_StillQueued)
  /\ [][C23_LeaveStep]_vars

\* a request abandoned while queued has been handed a slot
C23_Witness ==
  \E r \in Reqs :
    /\ hist[r].abandoned
    /\ hist[r].granted = 1
    /\ pc[r] \in {"granted", "inference"}

C25_Optimistic ==
  [][ \A u \in Subjects :
        Called(u)
        => \A nickname \in Nicknames :
             LET out == checkAndConsumeQuota(quotaUsers, quotaConfig, thisWeek,
                                             u, nickname)
             IN /\ last'.result.allowed = out.result.allowed
                /\ last'.result.reason = out.result.reason
                /\ last'.result.remaining = out.result.remaining
                /\ last'.result.reason # "error"
    ]_vars

\* a call was allowed from the weekly allotment while its write was lost:
\* the stored ledger does not hold the consumption
C25_Witness ==
  \E u \in Subjects :
    /\ last.userId = u
    /\ last.result.allowed /\ last.result.reason = "weekly_free"
    /\ facade.op = "saveQuotaUsers" /\ facade.value = "lost"
    /\ EffectiveUsage(quotaUsers, thisWeek, u) = 0

\* ------------------------------------------------------------------ C26
\* two calls of checkAndConsumeQuota for the same subject, both decided from
\* the same blob and both about to write: their reads both happened before
\* either write
C26_Twins(r1, r2) ==
  /\ r1 # r2
  /\ pc[r1] = "q_save" /\ pc[r2] = "q_save"
  /\ quotaCall[r1].save /\ quotaCall[r2].save
  /\ quotaCall[r1].userId = quotaCall[r2].userId
  /\ quotaCall[r1].users = quotaCall[r2].users

\* the step in which the saveQuotaUsers call of r completes
C26_Saves(r) == pc[r] = "q_save" /\ pc'[r] # "q_save" /\ quotaCall[r].save

\* C26: two checkAndConsumeQuota calls for the same non-unlimited subject
\* whose reads both happen before either write are both allowed, and each
\* write replaces the stored blob by the caller's own: after the first
\* write the stored row is already the one the second will write, so the
\* persisted usage grows by only 1 for the two allowed calls.
C26_ConsumptionRace ==
  /\ [](\A r1, r2 \in Reqs :
          C26_Twins(r1, r2) =>
            /\ quotaCall[r1].quota = "allowed" /\ quotaCall[r2].quota = "allowed"
            /\ ~quotaCall[r1].users[quotaCall[r1].userId].isUnlimited)
  /\ [][ /\ \A r \in Reqs : C26_Saves(r) => quotaUsers' = quotaCall[r].users
         /\ \A r1, r2 \in Reqs :
              (C26_Twins(r1, r2) /\ C26_Saves(r1))
              => /\ quotaUsers' = quotaCall[r2].users
                 /\ quotaCall'[r2] = quotaCall[r2] ]_vars

\* two calls by u1 have been allowed and have written in one week while the
\* ledger holds weeklyUsage = 1 = limit and no extraQuota: u1 was allowed
\* more than limit + extraQuota times
C26_Witness ==
  /\ \E r1, r2 \in Reqs :
       /\ r1 # r2
       /\ quotaCall[r1].quota = "allowed" /\ pc[r1] \in {"inference", "logging", "done"}
       /\ quotaCall[r2].quota = "allowed" /\ pc[r2] \in {"inference", "logging", "done"}
  /\ clock = 1
  /\ "u1" \in DOMAIN quotaUsers
  /\ quotaUsers["u1"].weeklyUsage = quotaConfig.normalWeeklyLimit
  /\ quotaUsers["u1"].extraQuota = 0
  /\ quotaUsers["u1"].totalUsage = 1
  /\ quotaConfig.normalWeeklyLimit = 1

\* ------------------------------------------------------------------ C27
\* whether blob `users` holds the effect of redeem request r
C27_Effect(users, r) ==
  /\ r.userId \in DOMAIN users
  /\ IF r.kind = "unlimited" THEN users[r.userId].isUnlimited
                              ELSE users[r.userId].extraQuota >= 1

\* two redeem requests of different codes by different subjects that have
\* both read both blobs while neither has written, no other redeem request
\* having been made
C27_BothRead(p1, p2) ==
  /\ p1 # p2
  /\ \A p \in DOMAIN rd \ {p1, p2} : rd[p].pc = "idle"
  /\ rd[p1].pc = "writing" /\ rd[p2].pc = "writing"
  /\ ~rd[p1].putCodes /\ ~rd[p1].putUsers
  /\ ~rd[p2].putCodes /\ ~rd[p2].putUsers
  /\ rd[p1].userId # rd[p2].userId
  /\ rd[p1].matched # rd[p2].matched

\* C27: when two subjects redeem two different valid codes (the only redeem
\* requests so far) and both read the registry and the ledger before either
\* writes, the ledger blob each is
\* about to write holds its own effect and not the other's, each write
\* replaces the whole stored ledger, and both requests answer success: the
\* final ledger holds the effect of the last writer only.
C27_RedeemRace ==
  /\ [](\A p1, p2 \in DOMAIN rd :
          C27_BothRead(p1, p2) =>
            /\ C27_Effect(rd[p1].users, rd[p1])
            /\ ~C27_Effect(rd[p1].users, rd[p2]))
  /\ [](\A p \in DOMAIN rd :
          (rd[p].pc = "done" /\ rd[p].kind # "none") => rd[p].status = "success")
  /\ [][ \A p \in DOMAIN rd :
           (rd[p].pc = "writing" /\ ~rd[p].putUsers /\ rd'[p].putUsers)
           => quotaUsers' = rd[p].users ]_vars

\* u1 and u2 have both been answered success for different codes and the
\* stored ledger has no row for one of them
C27_Witness ==
  \E p1, p2 \in DOMAIN rd :
    /\ rd[p1].pc = "done" /\ rd[p1].status = "success"
    /\ rd[p2].pc = "done" /\ rd[p2].status = "success"
    /\ rd[p1].userId # rd[p2].userId
    /\ rd[p1].matched # rd[p2].matched
    /\ C27_Effect(quotaUsers, rd[p1])
    /\ rd[p2].userId \notin DOMAIN quotaUsers

\* ------------------------------------------------------------------ C28
\* C28 (as claimed): a generated code is in the persisted registry exactly
\* while it has been neither redeemed nor deleted: a code a request has
\* answered success for is not in the registry, and a code that is not in
\* the registry has been matched by a request that has written the registry.
C28_Membership ==
  \A c \in DOMAIN StoredCodes :
    /\ (\E p \in DOMAIN rd : rd[p].status = "success" /\ rd[p].matched = c)
         => c \notin DOMAIN quotaCodes
    /\ c \notin DOMAIN quotaCodes
         => \E p \in DOMAIN rd : rd[p].matched = c /\ (rd[p].putCodes \/ rd[p].pc = "done")

\* ------------------------------------------------------------------ C29
\* the tier of subject u in blob users: its isUnlimited and isPro flags
C29_Tier(users, u) ==
  IF u \in DOMAIN users THEN << users[u].isUnlimited, users[u].isPro >>
  ELSE << FALSE, FALSE >>

\* C29 (as claimed): extraQuota is a non-negative integer in every ledger
\* row after any sequence of generate (with any amount it accepts), redeem
\* and delete, and the redeem of a code generated as a grant (type 'quota')
\* changes the subject's extraQuota only, never its tier.
C29_ExtraQuota ==
  /\ [](\A u \in DOMAIN quotaUsers : quotaUsers[u].extraQuota >= 0)
  /\ [][ \A u \in Subjects :
           ( /\ RegistryOp("redeem")
             /\ lastOp'.userId = u
             /\ lastOp'.status = "success"
             /\ quotaCodes[lastOp'.matched].type = "quota" )
           => C29_Tier(quotaUsers', u) = C29_Tier(quotaUsers, u) ]_vars

\* ------------------------------------------------------------------ C30
\* the persisted totalUsage of subject u (a subject without a row has
\* consumed nothing)
C30_Total(users, u) == IF u \in DOMAIN users THEN users[u].totalUsage ELSE 0

\* C30 (as claimed): the persisted totalUsage of a subject never decreases,
\* whatever the interleaving of checkAndConsumeQuota, redeem and the other
\* ledger writes; the write of an allowed consumption makes it exactly 1
\* greater, and a denied call leaves it unchanged.
C30_TotalUsage ==
  [][ /\ \A u \in Subjects :
           C30_Total(quotaUsers', u) >= C30_Total(quotaUsers, u)
      /\ \A r \in Reqs :
           C26_Saves(r)
           => C30_Total(quotaUsers', quotaCall[r].userId) =
                C30_Total(quotaUsers, quotaCall[r].userId) + 1
      /\ \A r \in Reqs :
           (pc[r] = "q_config" /\ quotaCall'[r].quota = "denied")
           => quotaUsers' = quotaUsers ]_vars

\* ------------------------------------------------ claims on the reclaimer
\* C33: a reclaimer tick at idle time <= IDLE_THRESHOLD clears nothing; a tick
\* at IDLE_THRESHOLD < idle <= DEEP_CLEAN_THRESHOLD empties the client cache
\* and the location cache and nothing else; a tick at idle >
\* DEEP_CLEAN_THRESHOLD empties both caches, unloads the SDK and drops the
\* journal mirror, marking it as not loaded. The SDK is never unloaded and
\* the mirror never dropped by a tick that leaves a cache non-empty.
C33_Mirror == << usageLogs, userStats, usageLogsInitialized >>

C33_TickStep ==
  ReclaimerTick
  => /\ idle <= IDLE_THRESHOLD
        => UNCHANGED << clientCache, ipLocationCache, GoogleGenAI, C33_Mirror >>
     /\ (IDLE_THRESHOLD < idle /\ idle <= DEEP_CLEAN_THRESHOLD)
        => /\ clientCache' = {}
           /\ ipLocationCache' = {}
           /\ UNCHANGED << GoogleGenAI, C33_Mirror >>
     /\ idle > DEEP_CLEAN_THRESHOLD
        => /\ clientCache' = {}
           /\ ipLocationCache' = {}
           /\ ~GoogleGenAI'
           /\ usageLogs' = << >>
           /\ ~usageLogsInitialized'
     /\ ((GoogleGenAI /\ ~GoogleGenAI') \/ (usageLogsInitialized /\ ~usageLogsInitialized'))
        => (clientCache' = {} /\ ipLocationCache' = {})

C33_Tiers == [][C33_TickStep]_vars

\* a client had been created and cached, and a deep tick has since emptied
\* the cache, unloaded the SDK and dropped the mirror
C33_Witness ==
  /\ lastJ.op = "client"
  /\ lastJ.usable
  /\ idle > DEEP_CLEAN_THRESHOLD
  /\ clientCache = {}
  /\ ~GoogleGenAI
  /\ ~usageLogsInitialized
  /\ usageLogs = << >>

\* C34: a reclaimer tick, at any idle time, leaves the persisted ledger,
\* registry, configuration and journal unchanged, makes no call to the
\* store, and leaves the gate's counter and queue unchanged.
C34_TickStep ==
  ReclaimerTick
  => UNCHANGED << storedLogs, quotaUsers, quotaCodes, quotaConfig, facade,
                  activeRequests, requestQueue >>

C34_Frame == [][C34_TickStep]_vars

\* the mirror of a journal whose last entry was appended and persisted has
\* been dropped by a deep tick, and the persisted journal still ends with
\* that entry
C34_Witness ==
  /\ lastJ.op = "append"
  /\ ~usageLogsInitialized
  /\ idle > DEEP_CLEAN_THRESHOLD
  /\ Len(storedLogs) >= 1
  /\ storedLogs[Len(storedLogs)] = lastJ.entry

\* ------------------------------------- claims on the handlers' bookkeeping
\* C32 (as claimed): every request that was granted a slot has appended one
\* journal entry when it has completed, whether it succeeded or failed, and a
\* request denied by quota has appended none.
C32_Journalled ==
  \A r \in Reqs :
    (pc[r] = "done" /\ hist[r].granted >= 1)
    => (hist[r].logged <=> quotaCall[r].quota # "denied")

\* C40: in the image-base64 handler the save of the consumed blob is issued
\* before the payload and the key are checked and before the inference call:
\* when it completes, the stored row of the subject is the one
\* checkAndConsumeQuota produced, whether the handler then goes on or fails
\* at once; and no later step of that request, up to and including its
\* failure, changes the stored ledger.
C40_SaveStep(r) ==
  (pc[r] = "q_save" /\ pc'[r] # "q_save" /\ quotaCall[r].save)
  => LET u == quotaCall[r].userId
     IN /\ u \in DOMAIN quotaUsers'
        /\ quotaUsers'[u] = quotaCall[r].users[u]
        /\ quotaUsers'[u].totalUsage >= 1

C40_LaterStep(r) ==
  (/\ ep[r] = "image-base64"
   /\ quotaCall[r].quota = "allowed"
   /\ pc[r] # "q_save"
   /\ pc'[r] # pc[r])
  => quotaUsers' = quotaUsers

C40_NoRollback == [][\A r \in Reqs : C40_SaveStep(r) /\ C40_LaterStep(r)]_vars

\* an image-base64 request has consumed a unit, has failed (it completed
\* without its journal entry) and has released its slot, and the subject's
\* row still carries the consumption
C40_Witness ==
  \E r \in Reqs :
    /\ pc[r] = "done"
    /\ quotaCall[r].quota = "allowed"
    /\ ~hist[r].logged
    /\ hist[r].released = 1
    /\ \A x \in Reqs \ {r} : pc[x] = "idle"
    /\ \E u \in DOMAIN quotaUsers :
          quotaUsers[u].weeklyUsage = 1 /\ quotaUsers[u].totalUsage = 1

\* C36 (as claimed): when the remote backend is configured and the call's
\* request to it fails with a transport error, the call is served by the
\* local store: a get returns what the local file gives and a set writes the
\* file, exactly as the same call does when no remote backend is configured,
\* for the ledger, the registry, the configuration and the journal.
C36_PerCallFallback ==
  (/\ facade.op \in FacadeOps
   /\ facade.remote.configured
   /\ facade.remote.outcome = "transport_error")
  => LET served == FacadeCall(facade.op,
                              [facade.remote EXCEPT !.configured = FALSE],
                              facade.local)
     IN facade.value = served.value

\* ------------------------------------------- claims on the journal mirror
Running == {l \in DOMAIN loads : loads[l] = "running"}

\* C31 (as claimed): at most one load of the mirror is running at any time;
\* every logUserUsage call that awaits a load while one is running awaits
\* that one; and a completed load leaves the per-user counters equal to the
\* number of entries it loaded, each counted once.
C31_OneLoad == Cardinality(Running) <= 1

C31_SameLoad ==
  \A a \in DOMAIN appends :
    (appends[a].pc = "init" /\ Running # {}) => appends[a].awaits \in Running

C31_LoadStep ==
  \A l \in DOMAIN loads :
    (loads[l] = "running" /\ loads'[l] = "done") => userStats' = Len(usageLogs')

C31_SingleLoad == [](C31_OneLoad /\ C31_SameLoad) /\ [][C31_LoadStep]_vars

Held(logs) == {logs[i] : i \in DOMAIN logs}

\* C35 (as claimed): when a reclaimer tick has fired while a logUserUsage
\* call awaited the location lookup (and no reload of the mirror was made),
\* the call completes as it would have without the tick: the persisted
\* journal afterwards is the previously persisted one followed by the new
\* entry, without its oldest entry when it was full.
C35_PushStep ==
  \A a \in DOMAIN appends :
    (/\ appends[a].pc = "geo"
     /\ appends'[a].pc = "done"
     /\ appends[a].ticked
     /\ loads = << >>)
    => storedLogs' = pushCapped(storedLogs, appends'[a].entry)

C35_NoReclaimRace == [][C35_PushStep]_vars

\* C39 (as claimed): under any interleaving of appends, forced reloads and
\* reclaimer ticks, an entry of the persisted journal stays in it unless it
\* is the oldest entry of a full journal and an append evicts it (the
\* specification makes no purge), and a mirror that is loaded, with no
\* load running, holds every persisted entry.
C39_Step ==
  Held(storedLogs) \ Held(storedLogs')
    \subseteq (IF Len(storedLogs) = MAX_USAGE_LOGS /\ Len(storedLogs') = MAX_USAGE_LOGS
               THEN {storedLogs[1]} ELSE {})

C39_Mirror ==
  (usageLogsInitialized /\ Running = {}) => Held(storedLogs) \subseteq Held(usageLogs)

C39_EntriesKept == [](C39_Mirror) /\ [][C39_Step]_vars

\* C38 (as claimed): a checkAndConsumeQuota call for one subject leaves the
\* persisted row of every other subject as it was, and no subject id leaves
\* the persisted ledger, also when the call's read of the ledger failed and
\* its write was served.
C38_Step ==
  \A u \in DOMAIN quotaUsers :
    /\ u \in DOMAIN quotaUsers'
    /\ u # last'.userId => quotaUsers'[u] = quotaUsers[u]

C38_LedgerFrame == [][C38_Step]_vars

\* --------------------------------------------------- claims on the config
\* both stored limits lie in 0..100
C37_Bounded ==
  /\ quotaConfig.normalWeeklyLimit \in 0..MAX_WEEKLY_LIMIT
  /\ quotaConfig.proWeeklyLimit \in 0..MAX_WEEKLY_LIMIT

\* C37 (as claimed): an update stores new limits only when both values of
\* the body are integers in 0..100, and otherwise answers with an error and
\* leaves the stored config unchanged; both stored limits lie in 0..100.
C37_IsIntegerInBounds(x) == x.kind = "int" /\ x.n \in 0..MAX_WEEKLY_LIMIT

C37_StrictStep ==
  IF C37_IsIntegerInBounds(lastCfg'.normal) /\ C37_IsIntegerInBounds(lastCfg'.pro)
  THEN lastCfg'.status = 200
  ELSE lastCfg'.status = 400 /\ quotaConfig' = quotaConfig

C37_AsClaimed == [](C37_Bounded) /\ [][C37_StrictStep]_vars

\* C37 (amended): an update stores new limits exactly when the leading
\* integer of each value of the body lies in 0..100, and then stores those
\* leading integers, whatever follows them in the value (100.9 is stored as
\* 100, "2abc" as 2); otherwise it answers with an error and leaves the
\* stored config unchanged; both stored limits lie in 0..100.
C37_LeadsInBounds(x) == x.kind \in {"int", "more"} /\ x.n \in 0..MAX_WEEKLY_LIMIT

C37_LenientStep ==
  IF C37_LeadsInBounds(lastCfg'.normal) /\ C37_LeadsInBounds(lastCfg'.pro)
  THEN /\ lastCfg'.status = 200
       /\ quotaConfig' = [ normalWeeklyLimit |-> lastCfg'.normal.n,
                           proWeeklyLimit |-> lastCfg'.pro.n ]
  ELSE lastCfg'.status = 400 /\ quotaConfig' = quotaConfig

C37_ConfigBounds == [](C37_Bounded) /\ [][C37_LenientStep]_vars

\* an update with the limits 100.9 and 0 has been accepted and stored as
\* 100 and 0
C37_Witness ==
  /\ lastCfg.status = 200
  /\ lastCfg.normal = [kind |-> "more", n |-> MAX_WEEKLY_LIMIT]
  /\ lastCfg.pro = [kind |-> "int", n |-> 0]
  /\ quotaConfig = [ normalWeeklyLimit |-> MAX_WEEKLY_LIMIT, proWeeklyLimit |-> 0 ]
====
